---- MODULE Spec2Model ----
(***************************************************************************)
(* ILI9488_T4 driver: differential-update engine, buffering state machine  *)
(* and asynchronous (timer / DMA interrupt driven) transfer scheduler.     *)
(*                                                                         *)
(* The main thread runs the public API (update, updateRegion, clear); it   *)
(* is cut at the places where the code can be preempted by one of the two  *)
(* interrupt sources (pacing timer, DMA completion).  Interrupt handlers   *)
(* run to completion: one action each.  Sections of the main thread        *)
(* between noInterrupts() and interrupts() are part of one action.         *)
(*                                                                         *)
(* The panel is a TFTWIDTH x TFTHEIGHT grid scaled down to 3 x 4; a frame  *)
(* is a tuple of NB_PIXELS colors in row-major order.                      *)
(***************************************************************************)
EXTENDS Integers, Sequences, FiniteSets, TLC

\* ---------------------------------------------------------------- bounds
\* number of update()/updateRegion()/clear() calls of one run
MaxSubmit == 3
\* nesting depth of completion callbacks after which the stack is exhausted
MaxNest == 3
\* largest number of scanlines the beam advances while one span is on the bus
MaxAdv == 1
MaxLate == 2
\* longest time in microseconds since the last synchronisation of the scanline
MaxElapsed == 12
\* update() calls and touch reads of one run of the touch application
MaxTouchSubmit == 2
MaxTouch == 1
\* reconfiguration calls of one run of the application that resynchronises
MaxEvents == 1
\* number of reconfiguration calls of one run
MaxReconf == 2
MaxTime == 10
ILI9488_T4_RETRY_INIT == 3
MaxAttempts == ILI9488_T4_RETRY_INIT + 2

\* ------------------------------------------------------ program constants
ILI9488_T4_TFTWIDTH == 3
ILI9488_T4_TFTHEIGHT == 4
ILI9488_T4_NB_PIXELS == ILI9488_T4_TFTWIDTH * ILI9488_T4_TFTHEIGHT
ILI9488_T4_NB_SCANLINES == ILI9488_T4_TFTHEIGHT

NULL == "NULL"
ILI9488_T4_DMA_IDLE == "IDLE"
ILI9488_T4_DMA_ON == "ON"

NO_BUFFERING == "NO_BUFFERING"
DOUBLE_BUFFERING == "DOUBLE_BUFFERING"
TRIPLE_BUFFERING == "TRIPLE_BUFFERING"

\* the two framebuffer memories handed to setFramebuffers and the diff objects
Buffers == {"A", "B"}
DiffObjs == {"D1", "D2", "DD1", "DD2"}
\* the two dummy diff objects the driver owns
DummyObjs == {"DD1", "DD2"}

\* ------------------------------------------------------------- pixels
Idx(x, y) == y * ILI9488_T4_TFTWIDTH + x + 1

AllPixels == 1..ILI9488_T4_NB_PIXELS

Zeros == [i \in AllPixels |-> 0]

\* frames the application submits
F0 == Zeros
F1 == [i \in AllPixels |-> IF i \in {Idx(0, 1), Idx(2, 1), Idx(1, 3)} THEN 1 ELSE 0]
Frames == {F0, F1}

FullRegion == [xmin |-> 0, xmax |-> ILI9488_T4_TFTWIDTH - 1,
               ymin |-> 0, ymax |-> ILI9488_T4_TFTHEIGHT - 1]
\* sub-rectangles passed to updateRegion
Regions == {[xmin |-> 0, xmax |-> ILI9488_T4_TFTWIDTH - 1, ymin |-> 1, ymax |-> 1]}

InRegion(i, reg) ==
    LET x == (i - 1) % ILI9488_T4_TFTWIDTH
        y == (i - 1) \div ILI9488_T4_TFTWIDTH
    IN x >= reg.xmin /\ x <= reg.xmax /\ y >= reg.ymin /\ y <= reg.ymax

RegionPixels(reg) == {i \in AllPixels : InRegion(i, reg)}

\* ------------------------------------------------------------ DiffBuff
\* tolerance compare: mask 0 is the strict comparison, otherwise only the
\* bits of the mask take part (colors are 2 bits wide in the model)
Masked(c, mask) == ((c % 2) * (mask % 2)) + 2 * ((c \div 2) * (mask \div 2))

Differs(a, b, mask) == IF mask = 0 THEN a # b ELSE Masked(a, mask) # Masked(b, mask)

\* pixels of region reg at which tgt differs from ref
Changed(ref, tgt, reg, mask) ==
    {i \in RegionPixels(reg) : Differs(ref[i], tgt[i], mask)}

\* pixels covered by a sequence of spans
Covered(spans) ==
    {i \in AllPixels : \E k \in 1..Len(spans) :
        /\ i >= Idx(spans[k].x, spans[k].y)
        /\ i < Idx(spans[k].x, spans[k].y) + spans[k].len}

\* run-length encoding of the pixel set P in raster order: consecutive
\* pixels of a row form a run, and two runs of a row separated by fewer
\* than gap other pixels are merged into one
RECURSIVE ScanDiff(_, _, _, _, _)
ScanDiff(P, gap, x, y, acc) ==
    IF y >= ILI9488_T4_TFTHEIGHT THEN acc
    ELSE IF x >= ILI9488_T4_TFTWIDTH THEN ScanDiff(P, gap, 0, y + 1, acc)
    ELSE IF Idx(x, y) \notin P THEN ScanDiff(P, gap, x + 1, y, acc)
    ELSE LET n == Len(acc)
             merge == /\ n > 0
                      /\ acc[n].y = y
                      /\ \/ x = acc[n].x + acc[n].len
                         \/ x - (acc[n].x + acc[n].len) < gap
         IN IF merge
            THEN ScanDiff(P, gap, x + 1, y, [acc EXCEPT ![n].len = x - acc[n].x + 1])
            ELSE ScanDiff(P, gap, x + 1, y, Append(acc, [x |-> x, y |-> y, len |-> 1]))

\* spans of the changed pixels of region reg, ascending rows
DiffSpans(ref, tgt, reg, gap, mask) ==
    ScanDiff(Changed(ref, tgt, reg, mask), gap, 0, 0, <<>>)

\* dummy diff: one full-width span per row, no comparison
DummySpans ==
    [k \in 1..ILI9488_T4_TFTHEIGHT |-> [x |-> 0, y |-> k - 1, len |-> ILI9488_T4_TFTWIDTH]]

\* copy of the region of tgt into ref
copyfb(ref, tgt, reg) == [i \in AllPixels |-> IF InRegion(i, reg) THEN tgt[i] ELSE ref[i]]

\* a diff object: its spans, the read cursor, and the number of the
\* submission it was computed for
EmptyDiff == [spans |-> <<>>, rd |-> 1, gen |-> 0]

initRead(d) == [d EXCEPT !.rd = 1]

\* readDiff(x, y, len, scanline): r < 0 finished, r > 0 the scanline to wait
\* for (cursor not advanced), r = 0 the span (cursor advanced)
readDiff(d, scanline) ==
    IF d.rd > Len(d.spans)
    THEN [r |-> -1, x |-> 0, y |-> 0, len |-> 0, d |-> d]
    ELSE LET s == d.spans[d.rd]
         IN IF s.y > scanline
            THEN [r |-> s.y, x |-> s.x, y |-> s.y, len |-> 0, d |-> d]
            ELSE [r |-> 0, x |-> s.x, y |-> s.y, len |-> s.len,
                  d |-> [d EXCEPT !.rd = d.rd + 1]]

\* ------------------------------------------------------------- the state
VARIABLES
    drv,      \* fields of the ILI9488Driver object
    mem,      \* content of the framebuffer memories A and B
    diffs,    \* the diff objects D1, D2 (DiffBuff) and DD1, DD2 (DiffBuffDummy)
    panel,    \* panel GRAM (px) and its column / row start registers (cx, cy)
    timer,    \* armed one-shot timer: callback (cb) and requested wait in scanlines
    dma,      \* span on the bus (on, source x y len)
    em,       \* _em_async in scanlines: _nbScanlineDuring(_em_async)
    main,     \* main thread: position in the API call (pc) and its arguments
    gh,       \* history: submissions, launches, callback runs, faults
    clock     \* micros() (now), the timer's expiry (at), and the history of the
              \* last launch: its time, _timeframestart then, start of bus work

vars == <<drv, mem, diffs, panel, timer, dma, em, main, gh, clock>>

\* the part of the state the driver's methods read and write
Sys == [drv |-> drv, mem |-> mem, diffs |-> diffs, panel |-> panel,
        timer |-> timer, dma |-> dma, em |-> em, gh |-> gh, clock |-> clock]

NoTimer == [cb |-> NULL, wait |-> 0]
NoDma == [on |-> FALSE, x |-> 0, y |-> 0, len |-> 0]

asyncUpdateActive(S) == S.drv.dma_state # ILI9488_T4_DMA_IDLE

bufferingMode(S) ==
    IF S.drv.fb2 # NULL THEN TRIPLE_BUFFERING
    ELSE IF S.drv.fb1 # NULL THEN DOUBLE_BUFFERING
    ELSE NO_BUFFERING

\* _setCB(pcb): register (or with NULL remove) the completion callback
setCB(S, cb) == [S EXCEPT !.drv.pcb = cb]

\* _setTimerIn / _setTimerAt: arm the one-shot timer
setTimer(S, cb, w) == [S EXCEPT !.timer = [cb |-> cb, wait |-> w]]

swapdiff(S) == [S EXCEPT !.drv.diff1 = S.drv.diff2, !.drv.diff2 = S.drv.diff1]

swapdummydiff(S) ==
    [S EXCEPT !.drv.dummydiff1 = S.drv.dummydiff2, !.drv.dummydiff2 = S.drv.dummydiff1]

swapfb(S) == [S EXCEPT !.drv.fb1 = S.drv.fb2, !.drv.fb2 = S.drv.fb1]

\* pixels of a span leave the source linearly and land in the panel's
\* address window, which starts at (cx, cy) and ends at the last column
LandSpan(px, src, x, y, len, cx, cy) ==
    LET w == ILI9488_T4_TFTWIDTH - cx
        dst(k) == Idx(cx + (k % w), cy + (k \div w))
        hit(i) == {k \in 0..(len - 1) : dst(k) = i /\ cy + (k \div w) < ILI9488_T4_TFTHEIGHT}
    IN [i \in AllPixels |->
          IF hit(i) # {} /\ Idx(x, y) + (CHOOSE k \in hit(i) : TRUE) \in AllPixels
          THEN src[Idx(x, y) + (CHOOSE k \in hit(i) : TRUE)]
          ELSE px[i]]

\* _endframe that records the margin whatever the vsync spacing
endframeAlways(S) ==
    [S EXCEPT !.drv.stats_nb_frame = @ + 1,
              !.drv.nbteared = IF S.drv.margin < 0 THEN @ + 1 ELSE @,
              !.drv.statsvar_margin = @ + 1]

\* _endframe: statsvar_margin is the number of margins pushed
endframe(S) ==
    [S EXCEPT !.drv.stats_nb_frame = @ + 1,
              !.drv.nbteared = IF S.drv.vsync_spacing > 0 /\ S.drv.margin < 0 THEN @ + 1 ELSE @,
              !.drv.statsvar_margin = IF S.drv.vsync_spacing > 0 THEN @ + 1 ELSE @]

\* the panel receives the full address window: CASET x..width, PASET
\* y..height; ncaset and npaset count the address commands of a transfer
sendWindow(S, x, y) ==
    [S EXCEPT !.panel.cx = x, !.panel.cy = y, !.panel.ncaset = 1, !.panel.npaset = 1,
              !.drv.prev_caset_x = x, !.drv.prev_paset_y = y]

\* a span whose column command is never sent
sendColumnElided(S, x) == S

\* CASET with the start column alone, when it is not the last one sent
sendColumn(S, x) ==
    IF x # S.drv.prev_caset_x
    THEN [S EXCEPT !.panel.cx = x, !.panel.ncaset = @ + 1, !.drv.prev_caset_x = x]
    ELSE S

\* PASET with the start row alone, when it is not the last one sent
sendRow(S, y) ==
    IF y # S.drv.prev_paset_y
    THEN [S EXCEPT !.panel.cy = y, !.panel.npaset = @ + 1, !.drv.prev_paset_y = y]
    ELSE S

\* _beginSPITransaction / _endSPITransaction of the display's transfer
beginSPITransaction(S) == [S EXCEPT !.panel.spi = TRUE]
endSPITransaction(S) == [S EXCEPT !.panel.spi = FALSE]

\* _updateTouch2(): the touch controller is read over the SPI bus; history:
\* the number of reads, whether the display held the bus, the transfers
\* launched so far and the state of the scheduler
updateTouch2(S) ==
    [S EXCEPT !.gh.samples = @ + 1,
              !.gh.sampleHeld = @ \/ S.panel.spi,
              !.gh.sampleAt = Len(S.gh.launched),
              !.gh.sampleState = S.drv.dma_state]

\* end of a transfer that leaves the request for a touch read standing
touchAtEndKeepsRequest(S) ==
    IF S.drv.touch_request_read THEN updateTouch2(S) ELSE S

\* end of a transfer: the touch read requested meanwhile is made now
touchAtEnd(S) ==
    IF S.drv.touch_request_read
    THEN [updateTouch2(S) EXCEPT !.drv.touch_request_read = FALSE]
    ELSE S

\* a fault ends the run: "stack" is the exhaustion of the stack by nested
\* completion callbacks, "hang" a wait for Idle inside an interrupt handler
Fault(S, f) == [S EXCEPT !.gh.fault = f]

\* history: what the diff object handed to _updateAsync encodes
DiffKind(S, diff) ==
    IF diff \notin DummyObjs THEN "real"
    ELSE IF Covered(S.diffs[diff].spans) = AllPixels THEN "dummy"
    ELSE "partial"

RECURSIVE FinishTransfer(_, _)
RECURSIVE buffer2fullCB(_, _)
RECURSIVE updateAsync(_, _, _, _)

\* end of a transfer: statistics, state Idle, completion callback, and the
\* callback removed afterward
FinishTransfer(S, depth) ==
    LET S1 == [touchAtEnd(endframe(S)) EXCEPT !.drv.dma_state = ILI9488_T4_DMA_IDLE]
    IN IF S1.drv.pcb = NULL THEN S1
       ELSE IF depth >= MaxNest THEN Fault(S1, "stack")
       ELSE LET S2 == buffer2fullCB(S1, depth + 1)
            IN [S2 EXCEPT !.drv.pcb = NULL]

\* completion callback of triple buffering: promote the staged frame
buffer2fullCB(S, depth) ==
    LET S0 == [S EXCEPT !.gh.cbRuns = @ + 1]
        S1 == swapfb(IF S0.drv.mirrorfb # NULL THEN swapdiff(S0) ELSE swapdummydiff(S0))
        S2 == [S1 EXCEPT !.drv.mirrorfb = S1.drv.fb1, !.drv.fb2full = FALSE]
        S3 == updateAsync(S2, S2.drv.fb1,
                          IF S0.drv.mirrorfb # NULL THEN S2.drv.diff1 ELSE S2.drv.dummydiff1,
                          depth)
    IN [S3 EXCEPT !.drv.pcb = NULL, !.drv.ongoingDiff = NULL]

\* launch the asynchronous transfer of framebuffer fb with diff object diff
updateAsync(S, fb, diff, depth) ==
    IF fb = NULL \/ diff = NULL THEN S
    ELSE IF asyncUpdateActive(S) THEN Fault(S, "hang")
    ELSE LET p == readDiff(initRead(S.diffs[diff]), 0)
             S1 == [S EXCEPT !.drv.margin = ILI9488_T4_NB_SCANLINES,
                             !.drv.dma_state = ILI9488_T4_DMA_ON,
                             !.drv.fb = fb,
                             !.drv.diff = diff,
                             !.diffs[diff] = p.d,
                             !.gh.launched = Append(@, S.gh.tag[fb]),
                             !.gh.launchedKind = Append(@, DiffKind(S, diff)),
                             !.gh.xferTag = S.gh.tag[fb],
                             !.gh.xferGen = S.diffs[diff].gen,
                             !.gh.landed = {}]
         IN IF p.r < 0
            THEN FinishTransfer(
                   [S1 EXCEPT !.drv.late_start_ratio_override =
                                 IF S.drv.vsync_spacing > 0 THEN FALSE ELSE @],
                   depth)
            ELSE setTimer([sendWindow(S1, p.x, p.y) EXCEPT !.drv.slinitpos = p.r],
                          "subFrameTimerStartcb", 0)

\* first timer callback: time the start of the transfer
subFrameTimerStartcb(S) ==
    IF S.drv.vsync_spacing <= 0
    THEN setTimer(S, "subFrameTimerStartcb2", 0)
    ELSE setTimer([S EXCEPT !.drv.late_start_ratio_override = FALSE],
                  "subFrameTimerStartcb2", 0)

\* the start of a transfer that always starts at once when it is late
lateStartWaitShortcut(S, t, t2) == IF t2 < t THEN 0 ELSE t

\* the wait _subFrameTimerStartcb asks for under vsync: t microseconds to
\* reach the first scanline of the diff, t2 to reach the latest scanline
\* the late-start ratio allows; with the override the wait is t, without it
\* the transfer starts at once when t2 < t
lateStartWait(S, t, t2) ==
    IF S.drv.late_start_ratio_override THEN t
    ELSE IF t2 < t THEN 0 ELSE t

\* _subFrameTimerStartcb with the wait it asks for
lateStart(S, t, t2) ==
    IF S.drv.vsync_spacing <= 0 THEN subFrameTimerStartcb(S)
    ELSE [subFrameTimerStartcb(S) EXCEPT !.timer.wait = lateStartWait(S, t, t2)]

\* scanlines _getScanLine can return once the beam has left [0, sc1]
ExitRange(sc1) ==
    IF sc1 + 1 >= ILI9488_T4_NB_SCANLINES THEN {0}
    ELSE {sl \in 0..(ILI9488_T4_NB_SCANLINES - 1) : sl > sc1 /\ sl <= sc1 + 2}

\* hand the span (x, y, len) of the source to the DMA engine after RAMWR
StartDma(S, x, y, len) ==
    [beginSPITransaction(S) EXCEPT
        !.drv.last_y = (ILI9488_T4_TFTWIDTH * y + x + len) \div ILI9488_T4_TFTWIDTH,
        !.dma = [on |-> TRUE, x |-> x, y |-> y, len |-> len]]

\* second timer callback: read the first instruction and start the DMA;
\* sl is the scanline read from the panel clock
subFrameTimerStartcb2(S, sl) ==
    LET paced == S.drv.vsync_spacing > 0
        S0 == IF paced THEN [S EXCEPT !.drv.slinitpos = sl, !.em = 0] ELSE S
        asl == IF paced THEN S0.drv.slinitpos ELSE 2 * ILI9488_T4_TFTHEIGHT
        p == readDiff(S0.diffs[S0.drv.diff], asl)
        S1 == [S0 EXCEPT !.diffs[S0.drv.diff] = p.d]
    IN IF p.r # 0 \/ p.len = 0 \/ p.x # S0.drv.prev_caset_x \/ p.y # S0.drv.prev_paset_y
       THEN FinishTransfer(S1, 0)
       ELSE StartDma(S1, p.x, p.y, p.len)

\* scheduler step that never looks at the margin
checkMarginNever(S) == S

\* with vsync pacing, the margin of the frame is the least, over the
\* scheduler steps, of the scanlines left between the last row written and
\* the beam, which started at _slinitpos and is in its next sweep
checkMargin(S) ==
    LET m == S.drv.last_y + ILI9488_T4_TFTHEIGHT - S.drv.slinitpos - S.em
    IN IF S.drv.vsync_spacing > 0 /\ m < S.drv.margin THEN [S EXCEPT !.drv.margin = m] ELSE S

\* new instruction that also arms the pacing timer
newInstructionTimed(S, p) ==
    setTimer(StartDma(sendRow(sendColumn(S, p.x), p.y), p.x, p.y, p.len),
             "subFrameInterruptDiff2", 3)

\* new instruction: address commands, RAMWR, and the span to the DMA engine
newInstruction(S, p) == StartDma(sendRow(sendColumn(S, p.x), p.y), p.x, p.y, p.len)

\* shortest wait of the scheduler; time is counted in scanline durations,
\* so _timeForScanlines(n) is n and _nbScanlineDuring(t) is t
ILI9488_T4_MIN_WAIT_TIME == 3

\* the wait for the beam to reach scanline r from the estimate asl
waitTime(r, asl) ==
    IF r - asl + 1 < ILI9488_T4_MIN_WAIT_TIME THEN ILI9488_T4_MIN_WAIT_TIME ELSE r - asl + 1

\* scheduler step that never waits for the beam
subFrameInterruptDiffNoWait(S) ==
    LET paced == S.drv.vsync_spacing > 0
        S0 == checkMargin(S)
        p == readDiff(S0.diffs[S0.drv.diff], 2 * ILI9488_T4_TFTHEIGHT)
        S1 == [S0 EXCEPT !.diffs[S0.drv.diff] = p.d]
    IN IF p.r < 0 THEN FinishTransfer(endSPITransaction(S1), 0)
       ELSE newInstruction(S1, p)

\* scheduler step that gives up the span it has to wait for
subFrameInterruptDiffSkips(S) ==
    LET paced == S.drv.vsync_spacing > 0
        S0 == checkMargin(S)
        asl == IF paced THEN S.drv.slinitpos + S.em ELSE 2 * ILI9488_T4_TFTHEIGHT
        p == readDiff(S0.diffs[S0.drv.diff], asl)
        S1 == [S0 EXCEPT !.diffs[S0.drv.diff] = p.d]
    IN IF p.r < 0 THEN FinishTransfer(endSPITransaction(S1), 0)
       ELSE IF p.r > 0
       THEN setTimer([S1 EXCEPT !.diffs[S0.drv.diff].rd = @ + 1],
                     "subFrameInterruptDiff2", waitTime(p.r, asl))
       ELSE newInstruction(S1, p)

\* scheduler step: next span, wait for the beam, or end of the transfer
subFrameInterruptDiff(S) ==
    LET paced == S.drv.vsync_spacing > 0
        S0 == checkMargin(S)
        asl == IF paced THEN S.drv.slinitpos + S.em ELSE 2 * ILI9488_T4_TFTHEIGHT
        p == readDiff(S0.diffs[S0.drv.diff], asl)
        S1 == [S0 EXCEPT !.diffs[S0.drv.diff] = p.d]
    IN IF p.r < 0 THEN FinishTransfer(endSPITransaction(S1), 0)
       ELSE IF p.r > 0 THEN setTimer(S1, "subFrameInterruptDiff2", waitTime(p.r, asl))
       ELSE newInstruction(S1, p)

\* --------------------------------------------------- synchronous pushes

\* diff->computeDiff(fb_old, [diff_old,] fb_new, region, ..., copy, mask):
\* encode into the diff object dobj the pixels of reg where frame f differs
\* from framebuffer ref (together with those of the diff object old), and
\* with copy also store the region of f into ref; a dummy object encodes
\* the whole panel
computeDiff(S, dobj, ref, f, reg, copy, old) ==
    LET base == S.mem[ref]
        P == Changed(base, f, reg, S.drv.compare_mask)
               \cup (IF old = NULL THEN {} ELSE Covered(S.diffs[old].spans))
        sp == IF dobj \in DummyObjs THEN DummySpans ELSE ScanDiff(P, S.drv.diff_gap, 0, 0, <<>>)
    IN [S EXCEPT !.diffs[dobj] = [spans |-> sp, rd |-> 1, gen |-> S.gh.nsub],
                 !.mem[ref] = IF copy THEN copyfb(base, f, reg) ELSE @,
                 !.gh.tag[ref] = IF copy THEN S.gh.nsub ELSE @]

computeDummyDiff(S, dobj) ==
    [S EXCEPT !.diffs[dobj] = [spans |-> DummySpans, rd |-> 1, gen |-> S.gh.nsub]]

\* DiffBuff::copyfb(dst, src, region, rotation)
copyInto(S, buf, f, reg) ==
    [S EXCEPT !.mem[buf] = copyfb(S.mem[buf], f, reg), !.gh.tag[buf] = S.gh.nsub]

\* the loop of _updateNow: the waits for the beam only delay the spans, so
\* every remaining span of the diff is pushed, in order
RECURSIVE PushSpans(_, _, _)
PushSpans(S, f, dobj) ==
    LET p == readDiff(S.diffs[dobj], 2 * ILI9488_T4_TFTHEIGHT)
        S1 == [S EXCEPT !.diffs[dobj] = p.d]
    IN IF p.r < 0 THEN endframe(S1)
       ELSE LET S2 == sendRow(sendColumn(S1, p.x), p.y)
                cx == S2.panel.cx
                cy == S2.panel.cy
            IN PushSpans([S2 EXCEPT !.panel.px = LandSpan(@, f, p.x, p.y, p.len, cx, cy),
                                    !.gh.written = @ \cup {Idx(cx, cy) + k : k \in 0..(p.len - 1)}],
                         f, dobj)

\* synchronous push of frame f with diff object dobj (caller is Idle).
\* prev_x / prev_y of the code are locals; the model keeps them in the
\* fields of the same name used by the asynchronous path
updateNow(S, f, dobj) ==
    IF dobj = NULL THEN S
    ELSE LET p == readDiff(initRead(S.diffs[dobj]), 0)
             S1 == [S EXCEPT !.drv.margin = ILI9488_T4_NB_SCANLINES,
                             !.diffs[dobj] = p.d,
                             !.gh.written = {},
                             !.drv.late_start_ratio_override =
                                 IF S.drv.vsync_spacing > 0 THEN FALSE ELSE @]
         IN IF p.r < 0 THEN endframe(S1)
            ELSE PushSpans(sendWindow(S1, p.x, p.y), f, dobj)

\* synchronous push of the rectangle reg of frame f
updateRectNow(S, f, reg) ==
    endframe([S EXCEPT !.panel.cx = reg.xmin,
                       !.panel.cy = reg.ymin,
                       !.panel.ncaset = 1,
                       !.panel.npaset = 1,
                       !.panel.px = copyfb(@, f, reg),
                       !.gh.written = RegionPixels(reg)])

\* resync(): the next transfer start waits for the target scanline
resync(S) == [S EXCEPT !.drv.late_start_ratio_override = TRUE]

\* ---------------------------------------------------------- main thread
Goto(S, m, pc) == [s |-> S, m |-> [m EXCEPT !.pc = pc]]

\* continue with the call _updateAsync(_fb1, ld); post: the statements
\* after the call set _mirrorfb = _fb1 and _ongoingDiff = nullptr
GoLaunch(S, m, ld, post) ==
    [s |-> S, m |-> [m EXCEPT !.pc = "launch", !.ld = ld, !.post = post]]

Return(S, m) ==
    [s |-> S, m |-> [m EXCEPT !.pc = "idle", !.ld = NULL, !.post = FALSE,
                              !.real = FALSE, !.old = NULL]]

\* update() that never drops a frame
updateEntryNoDrop(S, force) ==
    CASE bufferingMode(S) = NO_BUFFERING -> "upd_nobuf"
      [] bufferingMode(S) = DOUBLE_BUFFERING ->
            IF S.drv.diff1 = NULL \/ S.drv.mirrorfb = NULL \/ force THEN "upd_d_full"
            ELSE IF S.drv.diff2 = NULL THEN "upd_d_single"
            ELSE IF asyncUpdateActive(S) THEN "upd_d_two_a"
            ELSE "upd_d_two_i"
      [] OTHER -> IF ~asyncUpdateActive(S) THEN "upd_t_now" ELSE "upd_t_wait"

\* update() that launches at once in triple buffering, transfer or not
updateEntryTripleNow(S, force) ==
    CASE bufferingMode(S) = NO_BUFFERING -> "upd_nobuf"
      [] bufferingMode(S) = DOUBLE_BUFFERING ->
            IF S.drv.vsync_spacing = -1 /\ asyncUpdateActive(S) THEN "idle"
            ELSE IF S.drv.diff1 = NULL \/ S.drv.mirrorfb = NULL \/ force THEN "upd_d_full"
            ELSE IF S.drv.diff2 = NULL THEN "upd_d_single"
            ELSE IF asyncUpdateActive(S) THEN "upd_d_two_a"
            ELSE "upd_d_two_i"
      [] OTHER -> "upd_t_now"

\* update() that takes the branch without wait with a single diff buffer
updateEntrySkipsWait(S, force) ==
    CASE bufferingMode(S) = NO_BUFFERING -> "upd_nobuf"
      [] bufferingMode(S) = DOUBLE_BUFFERING ->
            IF S.drv.vsync_spacing = -1 /\ asyncUpdateActive(S) THEN "idle"
            ELSE IF S.drv.diff1 = NULL \/ S.drv.mirrorfb = NULL \/ force THEN "upd_d_full"
            ELSE "upd_d_two_i"
      [] OTHER -> IF ~asyncUpdateActive(S) THEN "upd_t_now" ELSE "upd_t_wait"

\* update(fb, force_full_redraw): the branch taken at entry
updateEntry(S, force) ==
    CASE bufferingMode(S) = NO_BUFFERING -> "upd_nobuf"
      [] bufferingMode(S) = DOUBLE_BUFFERING ->
            IF S.drv.vsync_spacing = -1 /\ asyncUpdateActive(S) THEN "idle"
            ELSE IF S.drv.diff1 = NULL \/ S.drv.mirrorfb = NULL \/ force THEN "upd_d_full"
            ELSE IF S.drv.diff2 = NULL THEN "upd_d_single"
            ELSE IF asyncUpdateActive(S) THEN "upd_d_two_a"
            ELSE "upd_d_two_i"
      [] OTHER -> IF ~asyncUpdateActive(S) THEN "upd_t_now" ELSE "upd_t_wait"

\* update() without its waits
updateReadyNoWait(S, m) == TRUE

\* update(): the loops that block the caller at each position
updateReady(S, m) ==
    CASE m.pc \in {"upd_nobuf", "upd_d_full", "upd_d_single", "upd_d_two_w"} ->
            ~asyncUpdateActive(S)
      [] m.pc = "upd_t_wait" -> S.drv.vsync_spacing = -1 \/ ~S.drv.fb2full
      [] OTHER -> TRUE

\* a full redraw: dummy diff and copy of the frame into _fb1
FullRedraw(S, m) ==
    GoLaunch(computeDiff(S, S.drv.dummydiff1, S.drv.fb1, m.f, FullRegion, TRUE, NULL),
             m, S.drv.dummydiff1, TRUE)

\* a differential redraw that leaves _fb1 as it is
DiffRedrawNoCopy(S, m) ==
    GoLaunch(computeDiff(S, S.drv.diff1, S.drv.fb1, m.f, FullRegion, FALSE, NULL),
             m, S.drv.diff1, TRUE)

\* a differential redraw: diff into _diff1 and copy of the frame into _fb1
DiffRedraw(S, m) ==
    GoLaunch(computeDiff(S, S.drv.diff1, S.drv.fb1, m.f, FullRegion, TRUE, NULL),
             m, S.drv.diff1, TRUE)

\* the diff computed with the copy into _fb1 during the transfer
DoubleStageCopies(S, m) ==
    Goto(computeDiff(S, S.drv.diff2, S.drv.fb1, m.f, FullRegion, TRUE, NULL), m, "upd_d_two_w")

\* double buffering with two diffs, transfer in progress: the new diff goes
\* into _diff2 and _fb1 is left alone
DoubleStage(S, m) ==
    Goto(computeDiff(S, S.drv.diff2, S.drv.fb1, m.f, FullRegion, FALSE, NULL), m, "upd_d_two_w")

\* noInterrupts() and interrupts(): the interrupt mask of the processor
noInterrupts(m) == [m EXCEPT !.irq = FALSE]
interrupts(m) == [m EXCEPT !.irq = TRUE]

\* second check that leaves the callback registered
TripleSecondCheckKeepsCB(S, m) ==
    IF asyncUpdateActive(S) THEN Goto(S, interrupts(m), "upd_t_stage")
    ELSE Goto(S, noInterrupts(m), "upd_t_now")

\* triple buffering, second check under noInterrupts(): with the transfer
\* still in progress the callback is removed before _fb2 is replaced and
\* interrupts() follows; with the transfer over the branch that launches
\* at once is taken, which has no interrupts()
TripleSecondCheck(S, m) ==
    IF asyncUpdateActive(S) THEN Goto(setCB(S, NULL), interrupts(m), "upd_t_stage")
    ELSE Goto(S, noInterrupts(m), "upd_t_now")

\* staging that computes the diff into the first diff slot
TripleStageInPlace(S, m) ==
    LET real == S.drv.mirrorfb # NULL /\ ~m.force /\ S.drv.diff2 # NULL
        dobj == IF real THEN S.drv.diff1 ELSE S.drv.dummydiff1
        S1 == computeDiff(S, dobj, S.drv.fb1, m.f, FullRegion, FALSE, NULL)
        r == Goto(copyInto(S1, S.drv.fb2, m.f, FullRegion), m, "upd_t_commit")
    IN [r EXCEPT !.m.real = real]

\* triple buffering, transfer in progress: the frame goes into _fb2 and
\* its diff against _fb1 into _diff2 (or _dummydiff2)
TripleStage(S, m) ==
    LET real == S.drv.mirrorfb # NULL /\ ~m.force /\ S.drv.diff2 # NULL
        dobj == IF real THEN S.drv.diff2 ELSE S.drv.dummydiff2
        S1 == computeDiff(S, dobj, S.drv.fb1, m.f, FullRegion, FALSE, NULL)
        r == Goto(copyInto(S1, S.drv.fb2, m.f, FullRegion), m, "upd_t_commit")
    IN [r EXCEPT !.m.real = real]

\* update(): the code from position m.pc up to the next position
updateStep(S, m) ==
    CASE m.pc = "upd_nobuf" ->
            LET S1 == computeDummyDiff([S EXCEPT !.drv.mirrorfb = NULL], S.drv.dummydiff1)
            IN Return(updateNow(S1, m.f, S1.drv.dummydiff1), m)
      [] m.pc = "upd_d_full" -> FullRedraw(S, m)
      [] m.pc = "upd_d_single" ->
            IF S.drv.mirrorfb = NULL \/ m.force THEN FullRedraw(S, m) ELSE DiffRedraw(S, m)
      [] m.pc = "upd_d_two_a" -> DoubleStage(S, m)
      [] m.pc = "upd_d_two_w" ->
            GoLaunch(swapdiff(copyInto(S, S.drv.fb1, m.f, FullRegion)), m, S.drv.diff2, TRUE)
      [] m.pc = "upd_d_two_i" -> DiffRedraw(S, m)
      [] m.pc = "upd_t_now" ->
            IF S.drv.diff2 = NULL \/ S.drv.mirrorfb = NULL \/ m.force
            THEN FullRedraw(S, m) ELSE DiffRedraw(S, m)
      [] m.pc = "upd_t_wait" -> TripleSecondCheck(S, m)
      [] m.pc = "upd_t_stage" -> TripleStage(S, m)
      [] m.pc = "upd_t_commit" ->
            IF asyncUpdateActive(S)
            THEN Return([setCB(S, "buffer2fullCB") EXCEPT
                            !.drv.fb2full = TRUE,
                            !.drv.mirrorfb = IF m.real THEN S.drv.fb2 ELSE NULL],
                        interrupts(m))
            ELSE LET S1 == swapfb(IF m.real THEN swapdiff(S) ELSE swapdummydiff(S))
                 IN GoLaunch([S1 EXCEPT !.drv.mirrorfb = S1.drv.fb1], interrupts(m),
                             IF m.real THEN S1.drv.diff1 ELSE S1.drv.dummydiff1, FALSE)

\* the call _updateAsync(_fb1, ld) made by the main thread and the
\* statements that follow it
launchStep(S, m) ==
    LET S1 == updateAsync(S, S.drv.fb1, m.ld, 0)
    IN Return(IF m.post THEN [S1 EXCEPT !.drv.mirrorfb = S1.drv.fb1, !.drv.ongoingDiff = NULL]
              ELSE S1, m)

\* _updateAsync, _updateNow and _updateRectNow first wait for Idle
launchReady(S) == ~asyncUpdateActive(S)

\* updateRegion(): the loops that block the caller at each position
updateRegionReady(S, m) ==
    CASE m.pc = "reg_dispatch" -> bufferingMode(S) # TRIPLE_BUFFERING \/ ~S.drv.fb2full
      [] m.pc \in {"reg_nobuf", "reg_nodiff", "reg_two_w", "reg_plain"} -> ~asyncUpdateActive(S)
      [] OTHER -> TRUE

\* region update that leaves _mirrorfb as it is when nothing is redrawn
RegionFinishKeepsMirror(S, m) ==
    LET S1 == swapdiff(S)
    IN IF m.redraw THEN GoLaunch(S1, m, S1.drv.diff1, TRUE)
       ELSE Return([S1 EXCEPT !.drv.ongoingDiff = S1.drv.diff1], m)

\* updateRegion() with two diff buffers, after the diff is in _diff2 and the
\* region in _fb1: swap the diffs, then redraw now or remember the diff
RegionFinish(S, m) ==
    LET S1 == swapdiff(S)
    IN IF m.redraw THEN GoLaunch(S1, m, S1.drv.diff1, TRUE)
       ELSE Return([S1 EXCEPT !.drv.mirrorfb = NULL, !.drv.ongoingDiff = S1.drv.diff1], m)

\* updateRegion(): the code from position m.pc up to the next position
updateRegionStep(S, m) ==
    CASE m.pc = "reg_dispatch" ->
            IF bufferingMode(S) = NO_BUFFERING
            THEN Goto([S EXCEPT !.drv.mirrorfb = NULL, !.drv.ongoingDiff = NULL], m, "reg_nobuf")
            ELSE IF S.drv.diff2 = NULL
            THEN Goto([S EXCEPT !.drv.ongoingDiff = NULL], m, "reg_nodiff")
            ELSE IF S.drv.mirrorfb # NULL \/ S.drv.ongoingDiff # NULL
            THEN [Goto(S, m, IF asyncUpdateActive(S) THEN "reg_two_a" ELSE "reg_two_i")
                    EXCEPT !.m.old = IF S.drv.mirrorfb # NULL THEN NULL ELSE S.drv.diff1]
            ELSE Goto(S, m, "reg_plain")
      [] m.pc = "reg_nobuf" -> Return(updateRectNow(S, m.f, m.reg), m)
      [] m.pc = "reg_nodiff" ->
            LET S1 == computeDiff(S, S.drv.dummydiff1, S.drv.fb1, m.f, m.reg, TRUE, NULL)
            IN IF ~m.redraw THEN Return([S1 EXCEPT !.drv.mirrorfb = NULL], m)
               ELSE IF S1.drv.mirrorfb # NULL
               THEN Return([updateRectNow(S1, m.f, m.reg) EXCEPT !.drv.mirrorfb = S1.drv.fb1], m)
               ELSE GoLaunch(S1, m, S1.drv.dummydiff1, TRUE)
      [] m.pc = "reg_two_a" ->
            Goto(computeDiff(S, S.drv.diff2, S.drv.fb1, m.f, m.reg, FALSE, m.old), m, "reg_two_w")
      [] m.pc = "reg_two_w" -> RegionFinish(copyInto(S, S.drv.fb1, m.f, m.reg), m)
      [] m.pc = "reg_two_i" ->
            RegionFinish(computeDiff(S, S.drv.diff2, S.drv.fb1, m.f, m.reg, TRUE, m.old), m)
      [] m.pc = "reg_plain" ->
            LET S1 == copyInto(S, S.drv.fb1, m.f, m.reg)
            IN IF ~m.redraw THEN Return(S1, m)
               ELSE GoLaunch(computeDiff(S1, S1.drv.dummydiff1, S1.drv.fb1, m.f, FullRegion,
                                         FALSE, NULL),
                             m, S1.drv.dummydiff1, TRUE)

\* clear(color): fill the panel synchronously, then _fb1
clearStep(S, m) ==
    LET fill == [i \in AllPixels |-> m.color]
        S1 == [S EXCEPT !.panel.px = fill, !.panel.cx = 0, !.panel.cy = 0,
                        !.panel.ncaset = 1, !.panel.npaset = 1,
                        !.gh.written = AllPixels]
        S2 == IF S1.drv.fb1 = NULL THEN S1
              ELSE [S1 EXCEPT !.mem[S1.drv.fb1] = fill,
                              !.gh.tag[S1.drv.fb1] = S1.gh.nsub,
                              !.drv.mirrorfb = S1.drv.fb1,
                              !.drv.ongoingDiff = NULL]
    IN Return(resync(S2), m)

\* ---------------------------------------------------- reconfiguration
\* _clip(v, vmin, vmax)
clip(v, vmin, vmax) == IF v < vmin THEN vmin ELSE IF v > vmax THEN vmax ELSE v

statsReset(S) ==
    [S EXCEPT !.drv.stats_nb_frame = 0, !.drv.nbteared = 0, !.drv.statsvar_margin = 0]

\* setRotation(m): the clipped rotation; nothing more is done when it is
\* the current one
setRotationEntry(S, a) ==
    IF clip(a, 0, 3) = S.drv.rotation THEN "idle" ELSE "rot_wait"

\* setRotation that stores its argument as it is
setRotationStepUnclipped(S, m) ==
    LET r == m.arg
        S1 == statsReset([S EXCEPT !.drv.mirrorfb = NULL, !.drv.ongoingDiff = NULL])
        S2 == [S1 EXCEPT !.drv.rotation = r,
                         !.drv.width = IF r \in {0, 2} THEN ILI9488_T4_TFTWIDTH
                                       ELSE ILI9488_T4_TFTHEIGHT,
                         !.drv.height = IF r \in {0, 2} THEN ILI9488_T4_TFTHEIGHT
                                        ELSE ILI9488_T4_TFTWIDTH]
    IN Return(resync(S2), m)

\* setRotation(m) from waitUpdateAsyncComplete() on
setRotationStep(S, m) ==
    LET r == clip(m.arg, 0, 3)
        S1 == statsReset([S EXCEPT !.drv.mirrorfb = NULL, !.drv.ongoingDiff = NULL])
        S2 == [S1 EXCEPT !.drv.rotation = r,
                         !.drv.width = IF r \in {0, 2} THEN ILI9488_T4_TFTWIDTH
                                       ELSE ILI9488_T4_TFTHEIGHT,
                         !.drv.height = IF r \in {0, 2} THEN ILI9488_T4_TFTHEIGHT
                                        ELSE ILI9488_T4_TFTWIDTH]
    IN Return(resync(S2), m)

\* --------------------------------------------------------- refresh rate
\* frame periods in microseconds that _sampleRefreshRate can measure in
\* mode 0: each of its ten sampled frames lasts at least 5000
NominalPeriod == 16667
Periods == {5000, 9999, 16667, 33333}

\* what _sampleRefreshRate measures: the panel's frame period under the
\* divider and the line period last written to FRMCTR1
FramePeriod(p) == (p.period0 * p.frmctr[2] * (1 + p.frmctr[1])) \div 16
sampleRefreshRate(S) ==
    [S EXCEPT !.drv.period = FramePeriod(S.panel), !.gh.nsample = @ + 1]

\* IEEE-754 single precision: the value (-1)^neg * m * 2^e with m = 0 or
\* 2^23 <= m < 2^24, results rounded to nearest, ties to even
FZero == [neg |-> FALSE, m |-> 0, e |-> 0]

RECURSIVE fshift(_, _, _, _)
fshift(q, r, d, e) ==
    IF q >= 2^23 THEN <<q, r, e>>
    ELSE LET bit == IF 2 * r >= d THEN 1 ELSE 0
         IN fshift(2 * q + bit, 2 * r - bit * d, d, e - 1)

\* q + r/d rounded to 24 bits
fround(q, r, d, e) ==
    LET up == 2 * r > d \/ (2 * r = d /\ q % 2 = 1)
        q1 == IF up THEN q + 1 ELSE q
    IN IF q1 = 2^24 THEN [neg |-> FALSE, m |-> 2^23, e |-> e + 1]
       ELSE [neg |-> FALSE, m |-> q1, e |-> e]

\* the float nearest to n / d, for integers 0 < n < 2^24 and 0 < d < 2^24
fdivInt(n, d) ==
    LET t == fshift(n \div d, n % d, d, 0)
    IN fround(t[1], t[2], d, t[3])

\* the float nearest to x / d for a positive float x and an integer d
fdiv(x, d) == LET q == fdivInt(x.m, d) IN [q EXCEPT !.e = @ + x.e]

\* x * 2^k, exact
fscale(x, k) == IF x.m = 0 THEN x ELSE [x EXCEPT !.e = @ + k]

\* the float nearest to the integer n * 2^e, n >= 0
RECURSIVE fnorm(_, _)
fnorm(n, e) ==
    IF n = 0 THEN FZero
    ELSE IF n < 2^23 THEN fnorm(2 * n, e - 1)
    ELSE IF n < 2^24 THEN [neg |-> FALSE, m |-> n, e |-> e]
    ELSE IF n < 2^25 THEN fround(n \div 2, n % 2, 2, e + 1)
    ELSE LET t == fnorm(n \div 2, e + 1)
         IN IF n % 2 = 0 \/ (n \div 2) % 2 = 0 THEN t
            ELSE fnorm(n \div 2 + 1, e + 1)

\* x - y for positive floats whose exponents differ by at most 6
fsub(x, y) ==
    LET e0 == IF x.e < y.e THEN x.e ELSE y.e
        n == x.m * 2^(x.e - e0) - y.m * 2^(y.e - e0)
    IN IF n >= 0 THEN fnorm(n, e0) ELSE [fnorm(-n, e0) EXCEPT !.neg = TRUE]

\* x < y
flt(x, y) ==
    CASE x.m = 0 -> y.m # 0 /\ ~y.neg
      [] y.m = 0 -> x.neg
      [] x.neg # y.neg -> x.neg
      [] OTHER -> LET lt == x.e < y.e \/ (x.e = y.e /\ x.m < y.m)
                      gt == x.e > y.e \/ (x.e = y.e /\ x.m > y.m)
                  IN IF x.neg THEN gt ELSE lt

fle(x, y) == ~flt(y, x)

\* the rate of the formula baseHz / ((16 + mode) / 16), halved for
\* mode >= 16, with the mode as it is given
refreshRateForModeLiteral(p, mode) ==
    LET freq == fdivInt(1000000, p)
        r == fdiv(fscale(freq, 4), 16 + mode)
    IN IF mode >= 16 THEN fscale(r, -1) ELSE r

\* _refreshRateForMode(mode) with _period_mode0 = p
refreshRateForMode(p, mode) ==
    LET freq == fdivInt(1000000, p)
        f1 == IF mode >= 16 THEN fscale(freq, -1) ELSE freq
        k == IF mode >= 16 THEN mode - 16 ELSE mode
    IN fdiv(fscale(f1, 4), 16 + k)

\* the dichotomy of _modeForRefreshRate
RECURSIVE dichotomy(_, _, _, _)
dichotomy(p, hz, a, b) ==
    IF b - a > 1
    THEN LET c == (a + b) \div 2
         IN IF flt(hz, refreshRateForMode(p, c)) THEN dichotomy(p, hz, c, b)
            ELSE dichotomy(p, hz, a, c)
    ELSE <<a, b>>

\* _modeForRefreshRate that answers with the farther of the two modes
modeForRefreshRateFarther(p, hz) ==
    IF fle(hz, refreshRateForMode(p, 31)) THEN 31
    ELSE IF fle(refreshRateForMode(p, 0), hz) THEN 0
    ELSE LET ab == dichotomy(p, hz, 0, 31)
             da == fsub(refreshRateForMode(p, ab[1]), hz)
             db == fsub(hz, refreshRateForMode(p, ab[2]))
         IN IF flt(da, db) THEN ab[2] ELSE ab[1]

\* _modeForRefreshRate(hz) with _period_mode0 = p
modeForRefreshRate(p, hz) ==
    IF fle(hz, refreshRateForMode(p, 31)) THEN 31
    ELSE IF fle(refreshRateForMode(p, 0), hz) THEN 0
    ELSE LET ab == dichotomy(p, hz, 0, 31)
             da == fsub(refreshRateForMode(p, ab[1]), hz)
             db == fsub(hz, refreshRateForMode(p, ab[2]))
         IN IF flt(da, db) THEN ab[1] ELSE ab[2]

\* setRefreshMode(mode) up to waitUpdateAsyncComplete(): an invalid mode
\* is ignored, a valid one is stored at once
setRefreshModeEntry(S, m) ==
    IF m.arg < 0 \/ m.arg > 31 THEN Return(S, m)
    ELSE Goto([S EXCEPT !.drv.refreshmode = m.arg], m, "rm_wait")

\* setRefreshMode(mode) that keeps the period measured before
setRefreshModeStepNoSample(S, m) ==
    LET diva == IF m.arg >= 16 THEN 1 ELSE 0
        mode == IF m.arg >= 16 THEN m.arg - 16 ELSE m.arg
    IN Return(resync(statsReset([S EXCEPT !.panel.frmctr = <<diva, 16 + mode>>])), m)

\* setRefreshMode(mode) from waitUpdateAsyncComplete() on: FRMCTR1 with the
\* divider and the mode, new statistics, resynchronisation
setRefreshModeStep(S, m) ==
    LET diva == IF m.arg >= 16 THEN 1 ELSE 0
        mode == IF m.arg >= 16 THEN m.arg - 16 ELSE m.arg
    IN Return(resync(statsReset(sampleRefreshRate(
                 [S EXCEPT !.panel.frmctr = <<diva, 16 + mode>>]))), m)

\* setFramebuffers(fb1, fb2) from waitUpdateAsyncComplete() on
setFramebuffersStep(S, m) ==
    LET f1 == IF m.a1 # NULL THEN m.a1 ELSE m.a2
        f2 == IF m.a1 # NULL THEN m.a2 ELSE m.a1
        S1 == [S EXCEPT !.drv.mirrorfb = NULL, !.drv.ongoingDiff = NULL,
                        !.drv.fb2full = FALSE, !.drv.fb1 = f1, !.drv.fb2 = f2]
        zero(T, b) == IF b = NULL THEN T
                      ELSE [T EXCEPT !.mem[b] = Zeros, !.gh.tag[b] = 0]
    IN Return(resync(zero(zero(S1, f1), f2)), m)

\* ---------------------------------------------------------------- pacing
\* The start of a transfer in time. Time is in microseconds; the refresh
\* period sampled by begin() is PacePeriod.
PacePeriod == 3
PaceSpacings == {-1, 0, 1, 2}

\* _setTimerIn(us, cb): cb runs us microseconds from now
setTimerIn(S, us, cb) ==
    [S EXCEPT !.timer = [cb |-> cb, wait |-> 0], !.clock.at = S.clock.now + us]

\* _setTimerAt(t, cb): cb runs at time t, or now when t is already past
setTimerAt(S, t, cb) ==
    [S EXCEPT !.timer = [cb |-> cb, wait |-> 0],
              !.clock.at = IF t > S.clock.now THEN t ELSE S.clock.now]

\* _delayMicro(us), delayMicroseconds(us): the caller spins for us
\* microseconds
delayMicro(S, us) == [S EXCEPT !.clock.now = @ + us]

\* the bus work of the transfer begins: CASET, PASET, RAMWR, first span
startBus(S) == [S EXCEPT !.clock.start = S.clock.now]

\* history: a transfer is launched now
Launched(S) ==
    [S EXCEPT !.clock.launch = S.clock.now, !.clock.prev = S.drv.timeframestart,
              !.clock.start = -1, !.gh.nsub = @ + 1]

\* _updateAsync that always asks for the first callback at once
timeUpdateAsyncAsap(S) ==
    setTimerIn([Launched(S) EXCEPT !.drv.dma_state = ILI9488_T4_DMA_ON],
               1, "subFrameTimerStartcb")

\* _updateAsync with a diff that is not empty, in time: the first callback
\* is asked for at once, or (N - 1) periods after _timeframestart
timeUpdateAsync(S) ==
    LET S1 == [Launched(S) EXCEPT !.drv.dma_state = ILI9488_T4_DMA_ON]
    IN IF S.drv.vsync_spacing <= 0
       THEN setTimerIn(S1, 1, "subFrameTimerStartcb")
       ELSE setTimerAt(S1, S.drv.timeframestart + (S.drv.vsync_spacing - 1) * S.drv.period,
                       "subFrameTimerStartcb")

\* _subFrameTimerStartcb in time: t is _microToReachScanLine(sc1), or 0
\* when the beam is late
timeSubFrameTimerStartcb(S, t) ==
    IF S.drv.vsync_spacing <= 0 THEN setTimerIn(S, 1, "subFrameTimerStartcb2")
    ELSE setTimerIn([S EXCEPT !.drv.late_start_ratio_override = FALSE],
                    t, "subFrameTimerStartcb2")

\* _subFrameTimerStartcb2 in time: when paced, d is spent leaving the range
\* [0, sc1] and the frame is first displayed r later; then the bus work
\* begins
timeSubFrameTimerStartcb2(S, d, r) ==
    LET S0 == [S EXCEPT !.timer = NoTimer]
        S1 == IF S.drv.vsync_spacing > 0
              THEN [delayMicro(S0, d) EXCEPT !.drv.timeframestart = S.clock.now + d + r]
              ELSE S0
    IN startBus(S1)

\* the last span of the transfer has reached the panel
timeEndTransfer(S) == [S EXCEPT !.drv.dma_state = ILI9488_T4_DMA_IDLE]

\* _updateNow with a diff that is not empty, in time: when paced, the wait
\* for (N - 1) periods after _timeframestart (w is the wait _delayMicro
\* makes of a difference that has wrapped because that time is past), then
\* t for the beam to reach sc1, d to leave [0, sc1]; then the bus work
\* begins, and the transfer ends before the call returns
timeUpdateNow(S, w, t, d, r) ==
    LET S0 == Launched(S)
        target == S.drv.timeframestart + (S.drv.vsync_spacing - 1) * S.drv.period
        dd == IF target >= S.clock.now THEN target - S.clock.now ELSE w
        S1 == delayMicro(S0, dd + t + d)
    IN IF S.drv.vsync_spacing > 0
       THEN startBus([S1 EXCEPT !.drv.timeframestart = S1.clock.now + r,
                                !.drv.late_start_ratio_override = FALSE])
       ELSE startBus(S0)

\* ----------------------------------------------------------------- begin
\* SPI read clocks in MHz; a negative argument selects the default
ILI9488_T4_DEFAULT_SPICLOCK_READ == 8
ReadClocks == {-1, 5, 8}

\* status registers RDMODE, RDPIXFMT, RDIMGFMT, RDSELFDIAG read back from
\* the panel
ILI9488_T4_SELFDIAG_OK == 192
StatusOK == <<156, 5, 0, ILI9488_T4_SELFDIAG_OK>>
StatusReads == {StatusOK, <<0, 0, 0, 0>>, <<0, 5, 0, ILI9488_T4_SELFDIAG_OK>>,
                <<156, 6, 0, ILI9488_T4_SELFDIAG_OK>>, <<156, 5, 1, ILI9488_T4_SELFDIAG_OK>>,
                <<156, 5, 0, 0>>}

\* the test of the four status registers in begin()
statusOk(res) ==
    IF res[1] = 0 /\ res[2] = 0 /\ res[3] = 0 /\ res[4] = 0 THEN FALSE
    ELSE res[1] = 156 /\ res[2] = 5 /\ res[3] = 0 /\ res[4] = ILI9488_T4_SELFDIAG_OK

\* begin() up to the retry loop: statistics, resynchronisation, unknown
\* mirror; an invalid pin returns false; then the read clock, the default
\* rotation and the retry counter
beginEntry(S, m, pinsok, clk) ==
    LET S1 == [resync(statsReset(S)) EXCEPT !.drv.mirrorfb = NULL, !.drv.ongoingDiff = NULL]
    IN IF ~pinsok THEN Return(S1, [m EXCEPT !.ret = "false"])
       ELSE Goto([S1 EXCEPT !.drv.rotation = 0],
                 [m EXCEPT !.spi_clock_read = IF clk < 0 THEN ILI9488_T4_DEFAULT_SPICLOCK_READ
                                              ELSE clk,
                           !.r = ILI9488_T4_RETRY_INIT],
                 "begin_try")

\* one pass of the retry loop: reset, init commands, status registers res;
\* on success setRefreshMode(0) and return true; otherwise --r, the abort
\* message when r <= 0, the read clock halved, and the loop goes round
beginAttempt(S, m, res) ==
    LET m1 == [m EXCEPT !.tries = @ + 1, !.res = res]
    IN IF statusOk(res)
       THEN LET e == setRefreshModeEntry(S, [m1 EXCEPT !.arg = 0])
                d == setRefreshModeStep(e.s, e.m)
            IN [s |-> [d.s EXCEPT !.drv.period_mode0 = d.s.drv.period],
                m |-> [d.m EXCEPT !.ret = "true"]]
       ELSE Goto(S, [m1 EXCEPT !.r = @ - 1, !.spi_clock_read = @ \div 2], "begin_try")

\* ------------------------------------------------------------------ Init
Colors == {1}
VsyncSpacings == {-1, 0, 1}

\* framebuffers and diff buffers given to setFramebuffers / setDiffBuffers
Configs ==
    {[fb1 |-> NULL, fb2 |-> NULL, diff1 |-> NULL, diff2 |-> NULL],
     [fb1 |-> "A", fb2 |-> NULL, diff1 |-> "D1", diff2 |-> NULL],
     [fb1 |-> "A", fb2 |-> NULL, diff1 |-> "D1", diff2 |-> "D2"],
     [fb1 |-> "A", fb2 |-> "B", diff1 |-> "D1", diff2 |-> "D2"]}

\* the driver after its constructor, setFramebuffers, setDiffBuffers and
\* setVsyncSpacing
Constructed(c, v) ==
    [fb1 |-> c.fb1, fb2 |-> c.fb2, diff1 |-> c.diff1, diff2 |-> c.diff2,
     dummydiff1 |-> "DD1", dummydiff2 |-> "DD2",
     mirrorfb |-> NULL, ongoingDiff |-> NULL, fb2full |-> FALSE,
     pcb |-> NULL, fb |-> NULL, diff |-> NULL, dma_state |-> ILI9488_T4_DMA_IDLE,
     vsync_spacing |-> v, diff_gap |-> 1, compare_mask |-> 0,
     late_start_ratio_override |-> TRUE,
     prev_caset_x |-> 0, prev_paset_y |-> 0, slinitpos |-> 0, last_y |-> 0,
     margin |-> ILI9488_T4_NB_SCANLINES, stats_nb_frame |-> 0, nbteared |-> 0,
     statsvar_margin |-> 0,
     rotation |-> 0, refreshmode |-> 0, period |-> 0, period_mode0 |-> 0,
     synced_em |-> 0, synced_scanline |-> 0, touch_request_read |-> FALSE,
     timeframestart |-> 0,
     width |-> ILI9488_T4_TFTWIDTH, height |-> ILI9488_T4_TFTHEIGHT]

IdleMain ==
    [pc |-> "idle", op |-> "none", f |-> F0, force |-> FALSE, reg |-> FullRegion,
     redraw |-> FALSE, color |-> 0, ld |-> NULL, post |-> FALSE, real |-> FALSE, old |-> NULL,
     arg |-> 0, a1 |-> NULL, a2 |-> NULL,
     r |-> 0, spi_clock_read |-> 0, tries |-> 0, ret |-> "none", res |-> <<>>,
     hz |-> FZero, mode |-> 0, sl |-> 0, irq |-> TRUE]

\* the constructed driver wired to a panel whose frame lasts p microseconds
\* in refresh mode 0
Wired(driver, p) ==
    /\ drv = driver
    /\ mem = [b \in Buffers |-> Zeros]
    /\ diffs = [d \in DiffObjs |->
                  IF d \in DummyObjs THEN [spans |-> DummySpans, rd |-> 1, gen |-> 0]
                  ELSE EmptyDiff]
    /\ panel = [px |-> [i \in AllPixels |-> 2], cx |-> 0, cy |-> 0, ncaset |-> 0,
                npaset |-> 0, frmctr |-> <<>>,
                period0 |-> p, spi |-> FALSE]
    /\ timer = NoTimer
    /\ dma = NoDma
    /\ em = 0
    /\ main = IdleMain
    /\ gh = [nsub |-> 0, tag |-> [b \in Buffers |-> 0], xferTag |-> 0, xferGen |-> 0,
             landed |-> {},
             cbRuns |-> 0, launched |-> <<>>, fault |-> "none", written |-> {},
             overwritten |-> {}, calledOver |-> {}, launchedKind |-> <<>>,
             updTags |-> {}, fullChoice |-> {}, nreconf |-> 0,
             nsample |-> 0, ntouch |-> 0, samples |-> 0, sampleHeld |-> FALSE, sampleAt |-> 0,
             sampleState |-> ILI9488_T4_DMA_IDLE]
    /\ clock = [now |-> 0, at |-> 0, launch |-> 0, prev |-> 0, start |-> -1]

Powered(p) == \E c \in Configs, v \in VsyncSpacings : Wired(Constructed(c, v), p)

Init == Powered(NominalPeriod)

\* --------------------------------------------------------------- actions
Alive == gh.fault = "none"

Commit(T, m) ==
    /\ drv' = T.drv
    /\ mem' = T.mem
    /\ diffs' = T.diffs
    /\ panel' = T.panel
    /\ timer' = T.timer
    /\ dma' = T.dma
    /\ em' = T.em
    /\ gh' = T.gh
    /\ clock' = T.clock
    /\ main' = m

CommitStep(r) == Commit(r.s, r.m)

\* a new API call: one more submission
Called == [Sys EXCEPT !.gh.nsub = @ + 1]

UpdatePcs == {"upd_nobuf", "upd_d_full", "upd_d_single", "upd_d_two_a", "upd_d_two_w",
              "upd_d_two_i", "upd_t_now", "upd_t_wait", "upd_t_stage", "upd_t_commit"}
RegionPcs == {"reg_dispatch", "reg_nobuf", "reg_nodiff", "reg_two_a", "reg_two_w",
              "reg_two_i", "reg_plain"}

\* positions of update() at which it chooses between a dummy diff and a
\* computed diff
ChoicePcs == {"upd_d_full", "upd_d_single", "upd_d_two_a", "upd_d_two_i", "upd_t_now", "upd_t_stage"}

\* history: the submission staged in _fb2 (callback registered) at the
\* moment update() is called during a transfer (calledOver), and the one
\* still staged when its second check finds the transfer in progress
\* (overwritten)
StagedNow ==
    IF asyncUpdateActive(Sys) /\ drv.pcb # NULL THEN {gh.tag[drv.fb2]} ELSE {}

UpdateCall ==
    /\ Alive /\ main.pc = "idle" /\ gh.nsub < MaxSubmit
    /\ \E f \in Frames, force \in BOOLEAN :
         LET S == [Called EXCEPT !.drv.ongoingDiff = NULL,
                                 !.gh.calledOver = @ \cup StagedNow,
                                 !.gh.updTags = @ \cup {gh.nsub + 1}]
             m == [main EXCEPT !.op = "update", !.f = f, !.force = force]
         IN CommitStep(IF updateEntry(S, force) = "idle" THEN Return(S, m)
                       ELSE Goto(S, m, updateEntry(S, force)))

Update ==
    /\ Alive /\ main.pc \in UpdatePcs
    /\ updateReady(Sys, main)
    /\ CommitStep(updateStep([Sys EXCEPT !.gh.overwritten =
                                  IF main.pc = "upd_t_wait" THEN @ \cup StagedNow ELSE @,
                                         !.gh.fullChoice =
                                  IF main.pc \in ChoicePcs /\ (drv.mirrorfb = NULL \/ main.force)
                                  THEN @ \cup {gh.nsub} ELSE @],
                             main))

Launch ==
    /\ Alive /\ main.pc = "launch"
    /\ launchReady(Sys)
    /\ CommitStep(launchStep([Sys EXCEPT !.gh.cbRuns = 0], main))

\* (the application's last submission is an update(): updateRegion() and
\* clear() are followed up to the one before it)
UpdateRegionCall ==
    /\ Alive /\ main.pc = "idle" /\ gh.nsub < MaxSubmit - 1
    /\ \E f \in Frames, reg \in Regions, redrawNow \in BOOLEAN :
         CommitStep(Goto(Called,
                         [main EXCEPT !.op = "updateRegion", !.f = f, !.reg = reg,
                                      !.redraw = redrawNow],
                         "reg_dispatch"))

UpdateRegion ==
    /\ Alive /\ main.pc \in RegionPcs
    /\ updateRegionReady(Sys, main)
    /\ CommitStep(updateRegionStep(Sys, main))

ClearCall ==
    /\ Alive /\ main.pc = "idle" /\ gh.nsub < MaxSubmit - 1
    /\ \E c \in Colors :
         CommitStep(Goto(Called, [main EXCEPT !.op = "clear", !.color = c], "clr"))

Clear ==
    /\ Alive /\ main.pc = "clr"
    /\ launchReady(Sys)
    /\ CommitStep(clearStep(Sys, main))

\* arguments of the reconfiguration calls
RotationArgs == {0, 1, 2, 3, 4, 255}
FbArgs == {<<NULL, NULL>>, <<"A", NULL>>, <<NULL, "A">>, <<"A", "B">>}

\* a new reconfiguration call
Reconfigured == [Sys EXCEPT !.gh.nreconf = @ + 1]

SetRotationCall ==
    /\ Alive /\ main.pc = "idle" /\ gh.nreconf < MaxReconf
    /\ \E a \in RotationArgs :
         LET m == [main EXCEPT !.op = "setRotation", !.arg = a]
         IN CommitStep(IF setRotationEntry(Reconfigured, a) = "idle"
                       THEN Return(Reconfigured, m)
                       ELSE Goto(Reconfigured, m, "rot_wait"))

SetRotation ==
    /\ Alive /\ main.pc = "rot_wait"
    /\ launchReady(Sys)
    /\ CommitStep(setRotationStep(Sys, main))

RefreshArgs == {-1, 0, 15, 16, 31, 32}

SetRefreshModeCall ==
    /\ Alive /\ main.pc = "idle" /\ gh.nreconf < MaxReconf
    /\ \E a \in RefreshArgs :
         CommitStep(setRefreshModeEntry(Reconfigured,
                                        [main EXCEPT !.op = "setRefreshMode", !.arg = a]))

SetRefreshMode ==
    /\ Alive /\ main.pc = "rm_wait"
    /\ launchReady(Sys)
    /\ CommitStep(setRefreshModeStep(Sys, main))

SetFramebuffersCall ==
    /\ Alive /\ main.pc = "idle" /\ gh.nreconf < MaxReconf
    /\ \E a \in FbArgs :
         CommitStep(Goto(Reconfigured,
                         [main EXCEPT !.op = "setFramebuffers", !.a1 = a[1], !.a2 = a[2]],
                         "fbs_wait"))

SetFramebuffers ==
    /\ Alive /\ main.pc = "fbs_wait"
    /\ launchReady(Sys)
    /\ CommitStep(setFramebuffersStep(Sys, main))

\* the armed timer expires: its callback runs with the timer disarmed
Fired == [Sys EXCEPT !.timer = NoTimer, !.gh.cbRuns = 0]

TimerStartcb ==
    /\ Alive /\ main.irq /\ timer.cb = "subFrameTimerStartcb"
    /\ Commit(subFrameTimerStartcb(Fired), main)

TimerStartcb2 ==
    /\ Alive /\ main.irq /\ timer.cb = "subFrameTimerStartcb2"
    /\ \E sl \in (IF drv.vsync_spacing > 0 THEN ExitRange(drv.slinitpos) ELSE {0}) :
         Commit(subFrameTimerStartcb2(Fired, sl), main)

\* _subFrameInterruptDiff2: the wait for the beam is over
TimerDiff2 ==
    /\ Alive /\ main.irq /\ timer.cb = "subFrameInterruptDiff2"
    /\ Commit(subFrameInterruptDiff([Fired EXCEPT !.em = @ + timer.wait]), main)

\* _dmaInterruptDiff: the span on the bus has reached the panel
DmaDone(adv) ==
    /\ Alive /\ main.irq /\ dma.on
    /\ \E k \in (IF drv.vsync_spacing > 0 THEN 0..adv ELSE {0}) :
         LET S == [Sys EXCEPT
                     !.dma = NoDma,
                     !.em = @ + k,
                     !.gh.cbRuns = 0,
                     !.panel.px = LandSpan(@, mem[drv.fb], dma.x, dma.y, dma.len,
                                           panel.cx, panel.cy),
                     !.gh.landed = @ \cup {<<gh.tag[drv.fb], diffs[drv.diff].gen>>}]
         IN Commit(subFrameInterruptDiff(S), main)

DmaInterruptDiff == DmaDone(MaxAdv)

Next ==
    \/ UpdateCall
    \/ Update
    \/ Launch
    \/ UpdateRegionCall
    \/ UpdateRegion
    \/ ClearCall
    \/ Clear
    \/ TimerStartcb
    \/ TimerStartcb2
    \/ TimerDiff2
    \/ DmaInterruptDiff

Spec == Init /\ [][Next]_vars

\* the interrupt handlers: the armed timer's callback and the DMA completion
Interrupt == TimerStartcb \/ TimerStartcb2 \/ TimerDiff2 \/ DmaInterruptDiff

\* the main thread is inside a call and not held in one of its wait loops
MainReady ==
    Alive /\ CASE main.pc \in UpdatePcs -> updateReady(Sys, main)
               [] main.pc \in RegionPcs -> updateRegionReady(Sys, main)
               [] main.pc \in {"launch", "clr"} -> launchReady(Sys)
               [] OTHER -> FALSE

\* a step of the call in progress
MainMoved == main.pc # "idle" /\ main' # main

\* a handler is due: the timer is armed or a span is on the bus, and
\* interrupts are not masked
InterruptReady == Alive /\ main.irq /\ (timer.cb # NULL \/ dma.on)

\* the same application on hardware whose armed timer and whose DMA
\* completion interrupt eventually fire (weak fairness of the handlers) and
\* whose main thread, when not held in a wait loop, eventually takes its
\* next step (weak fairness of the call in progress, with its enabling
\* condition written out)
SpecLive ==
    /\ Init /\ [][Next]_vars
    /\ WF_vars(Interrupt)
    /\ ([]<>~MainReady \/ []<><<MainMoved>>_vars)

\* an application that submits frames with update() and reconfigures the
\* driver between and during the transfers
NextReconf ==
    \/ UpdateCall
    \/ Update
    \/ Launch
    \/ SetRotationCall
    \/ SetRotation
    \/ SetFramebuffersCall
    \/ SetFramebuffers
    \/ TimerStartcb
    \/ TimerStartcb2
    \/ TimerDiff2
    \/ DmaInterruptDiff

SpecReconf == Init /\ [][NextReconf]_vars

\* an application that only changes the rotation and the refresh mode
NextConfig ==
    \/ SetRotationCall
    \/ SetRotation
    \/ SetRefreshModeCall
    \/ SetRefreshMode

SpecConfig == Init /\ [][NextConfig]_vars

BeginCall ==
    /\ Alive /\ main.pc = "idle" /\ main.ret = "none"
    /\ \E pinsok \in BOOLEAN, clk \in ReadClocks :
         CommitStep(beginEntry(Sys, [main EXCEPT !.op = "begin"], pinsok, clk))

\* the loop is followed for MaxAttempts passes
BeginAttempt ==
    /\ Alive /\ main.pc = "begin_try" /\ main.tries < MaxAttempts
    /\ \E res \in StatusReads : CommitStep(beginAttempt(Sys, main, res))

\* an application that initialises the driver
NextBegin ==
    \/ BeginCall
    \/ BeginAttempt

SpecBegin == Init /\ [][NextBegin]_vars

RefreshRateForMode ==
    /\ Alive /\ main.pc = "idle" /\ main.ret = "true"
    /\ main.op \in {"begin", "_modeForRefreshRate"}
    /\ \E m \in 0..31 :
         main' = [main EXCEPT !.op = "_refreshRateForMode", !.arg = m, !.mode = 0,
                              !.hz = refreshRateForMode(drv.period_mode0, m)]
    /\ UNCHANGED <<drv, mem, diffs, panel, timer, dma, em, gh, clock>>

ModeForRefreshRate ==
    /\ Alive /\ main.pc = "idle" /\ main.op = "_refreshRateForMode"
    /\ main' = [main EXCEPT !.op = "_modeForRefreshRate",
                            !.mode = modeForRefreshRate(drv.period_mode0, main.hz)]
    /\ UNCHANGED <<drv, mem, diffs, panel, timer, dma, em, gh, clock>>

\* an application that initialises the driver on some panel and converts
\* refresh modes to rates and back
InitRate == \E p \in Periods : Powered(p)

NextRate ==
    \/ BeginCall
    \/ BeginAttempt
    \/ RefreshRateForMode
    \/ ModeForRefreshRate

SpecRate == InitRate /\ [][NextRate]_vars

\* the launch of an asynchronous transfer when the scheduler is Idle
TimeUpdateAsync ==
    /\ bufferingMode(Sys) # NO_BUFFERING
    /\ ~asyncUpdateActive(Sys) /\ gh.nsub < MaxSubmit
    /\ Commit(timeUpdateAsync(Sys), main)

\* the armed timer has expired
Expired == timer.cb # NULL /\ clock.now >= clock.at

TimeTimerStartcb ==
    /\ Expired /\ timer.cb = "subFrameTimerStartcb"
    /\ \E t \in 0..(PacePeriod - 1) : Commit(timeSubFrameTimerStartcb(Sys, t), main)

TimeTimerStartcb2 ==
    /\ Expired /\ timer.cb = "subFrameTimerStartcb2"
    /\ \E d \in 0..1, r \in 0..(PacePeriod - 1) :
         Commit(timeSubFrameTimerStartcb2(Sys, d, r), main)

TimeEndTransfer ==
    /\ asyncUpdateActive(Sys) /\ clock.start >= 0
    /\ Commit(timeEndTransfer(Sys), main)

\* a synchronous push when the scheduler is Idle
TimeUpdateNow ==
    /\ bufferingMode(Sys) = NO_BUFFERING
    /\ ~asyncUpdateActive(Sys) /\ gh.nsub < MaxSubmit
    /\ \E w \in {0, PacePeriod}, t \in {0, PacePeriod - 1}, d \in 0..1, r \in 0..(PacePeriod - 1) :
         Commit(timeUpdateNow(Sys, w, t, d, r), main)

\* one microsecond passes; an expired timer runs its callback first
Tick ==
    /\ clock.now < MaxTime /\ ~Expired
    /\ clock' = [clock EXCEPT !.now = @ + 1]
    /\ UNCHANGED <<drv, mem, diffs, panel, timer, dma, em, main, gh>>

\* without a framebuffer update() pushes with _updateNow, with one it
\* launches with _updateAsync
PaceConfigs == {c \in Configs : c.fb2 = NULL /\ c.diff2 = NULL}

\* the driver after begin() on a panel whose refresh period is PacePeriod
InitPace ==
    \E c \in PaceConfigs, v \in PaceSpacings :
        Wired([Constructed(c, v) EXCEPT !.period = PacePeriod, !.period_mode0 = PacePeriod],
              PacePeriod)

NextPace ==
    \/ TimeUpdateAsync
    \/ TimeTimerStartcb
    \/ TimeTimerStartcb2
    \/ TimeEndTransfer
    \/ TimeUpdateNow
    \/ Tick

SpecPace == InitPace /\ [][NextPace]_vars

\* gap thresholds and comparison masks given to the driver: the mask 0
\* compares the pixels exactly, the mask 2 ignores their low bit
Gaps == {0, 1, 2}
Masks == {0, 2}

\* the driver after setDiffGap(g) and setDiffCompareMask(k)
Tuned(driver, g, k) == [driver EXCEPT !.diff_gap = g, !.compare_mask = k]

BufferedConfigs == {c \in Configs : c.fb1 # NULL}

\* a driver with framebuffers, for every gap and mask
InitDiff ==
    \E c \in BufferedConfigs, v \in VsyncSpacings, g \in Gaps, k \in Masks :
        Wired(Tuned(Constructed(c, v), g, k), NominalPeriod)

NextDiff ==
    \/ UpdateCall
    \/ Update
    \/ Launch
    \/ TimerStartcb
    \/ TimerStartcb2
    \/ TimerDiff2
    \/ DmaInterruptDiff

SpecDiff == InitDiff /\ [][NextDiff]_vars

\* a slow bus: the beam advances up to MaxLate scanlines while a span is
\* on the bus
DmaInterruptLate == DmaDone(MaxLate)

\* a driver with framebuffers and vsync pacing
InitTear ==
    \E c \in BufferedConfigs : Wired(Constructed(c, 1), NominalPeriod)

NextTear ==
    \/ UpdateCall
    \/ Update
    \/ Launch
    \/ TimerStartcb
    \/ TimerStartcb2
    \/ TimerDiff2
    \/ DmaInterruptLate

SpecTear == InitTear /\ [][NextTear]_vars

\* rates an application asks for: the halves from 4 Hz to 255 Hz
RequestedRates == {fnorm(n, -1) : n \in 8..510}

\* the application calls _refreshRateForMode(m)
RateQuery ==
    /\ main.pc = "idle" /\ main.op = "none"
    /\ \E m \in 0..31 :
         main' = [main EXCEPT !.op = "_refreshRateForMode", !.arg = m, !.mode = 0,
                              !.hz = refreshRateForMode(drv.period_mode0, m)]
    /\ UNCHANGED <<drv, mem, diffs, panel, timer, dma, em, gh, clock>>

\* the application calls _modeForRefreshRate(hz)
ModeQuery ==
    /\ main.pc = "idle" /\ main.op = "none"
    /\ \E hz \in RequestedRates :
         main' = [main EXCEPT !.op = "_modeForRefreshRate", !.arg = 0, !.hz = hz,
                              !.mode = modeForRefreshRate(drv.period_mode0, hz)]
    /\ UNCHANGED <<drv, mem, diffs, panel, timer, dma, em, gh, clock>>

\* the driver after begin() on a panel whose refresh period in mode 0 is p
InitHz ==
    \E c \in Configs, p \in Periods :
        Wired([Constructed(c, 0) EXCEPT !.period = p, !.period_mode0 = p], p)

NextHz ==
    \/ RateQuery
    \/ ModeQuery

SpecHz == InitHz /\ [][NextHz]_vars

\* update() of an application that submits few frames
TouchUpdateCall == gh.nsub < MaxTouchSubmit /\ UpdateCall

\* --------------------------------------------------------------- resync
\* microseconds _microToReachScanLine can return for a scanline the beam
\* has not reached
ReachTimes == {1, 2}
LateReachTimes == {0, 3}

\* the first timer callback, with the times the panel clock gives
TimerStartcbLate ==
    /\ Alive /\ main.irq /\ timer.cb = "subFrameTimerStartcb"
    /\ \E t \in ReachTimes, t2 \in LateReachTimes : Commit(lateStart(Fired, t, t2), main)

\* the application turns the panel, gives the framebuffer again, or
\* changes the refresh mode
RotationEvent == gh.nreconf < MaxEvents /\ SetRotationCall /\ main'.arg = 1
FramebuffersEvent ==
    gh.nreconf < MaxEvents /\ SetFramebuffersCall /\ main'.a1 = "A" /\ main'.a2 = NULL
RefreshModeEvent == gh.nreconf < MaxEvents /\ SetRefreshModeCall /\ main'.arg = 15

\* the driver after begin(), with vsync spacing 1
InitResync ==
    \E c \in Configs :
        Wired([Constructed(c, 1) EXCEPT !.period = NominalPeriod,
                                        !.period_mode0 = NominalPeriod],
              NominalPeriod)

NextResync ==
    \/ TouchUpdateCall
    \/ Update
    \/ Launch
    \/ RotationEvent
    \/ SetRotation
    \/ FramebuffersEvent
    \/ SetFramebuffers
    \/ RefreshModeEvent
    \/ SetRefreshMode
    \/ TimerStartcbLate
    \/ TimerStartcb2
    \/ TimerDiff2
    \/ DmaInterruptDiff

SpecResync == InitResync /\ [][NextResync]_vars

\* ---------------------------------------------------------------- touch
TouchPcs == {"tch_set", "tch_spin", "tch_spin2", "tch_after", "tch_read"}

\* _updateTouch() up to its test of asyncUpdateActive(); due is false when
\* the last read is recent or no touch was signalled
updateTouchEntry(S, m, due) ==
    IF ~due THEN Return(S, m)
    ELSE IF asyncUpdateActive(S) THEN Goto(S, m, "tch_set")
    ELSE Goto(S, m, "tch_read")

\* _updateTouch() from there on, one access to the shared state at a time:
\* the request, the two tests of the wait loop, the test after it with the
\* removal of the request, and the read
updateTouchStep(S, m) ==
    CASE m.pc = "tch_set" -> Goto([S EXCEPT !.drv.touch_request_read = TRUE], m, "tch_spin")
      [] m.pc = "tch_spin" ->
            IF S.drv.touch_request_read THEN Goto(S, m, "tch_spin2") ELSE Goto(S, m, "tch_after")
      [] m.pc = "tch_spin2" ->
            IF asyncUpdateActive(S) THEN Goto(S, m, "tch_spin") ELSE Goto(S, m, "tch_after")
      [] m.pc = "tch_after" ->
            IF ~S.drv.touch_request_read THEN Return(S, m)
            ELSE Goto([S EXCEPT !.drv.touch_request_read = FALSE], m, "tch_read")
      [] m.pc = "tch_read" -> Return(updateTouch2(S), m)

\* the application reads the touch screen
UpdateTouchCall ==
    /\ Alive /\ main.pc = "idle" /\ gh.ntouch < MaxTouch
    /\ \E due \in BOOLEAN :
         CommitStep(updateTouchEntry([Sys EXCEPT !.gh.ntouch = @ + 1, !.gh.samples = 0],
                                     [main EXCEPT !.op = "_updateTouch"], due))

UpdateTouch ==
    /\ Alive /\ main.pc \in TouchPcs
    /\ CommitStep(updateTouchStep(Sys, main))

\* an application that submits frames and reads the touch screen
NextTouch ==
    \/ TouchUpdateCall
    \/ Update
    \/ Launch
    \/ UpdateTouchCall
    \/ UpdateTouch
    \/ TimerStartcb
    \/ TimerStartcb2
    \/ TimerDiff2
    \/ DmaInterruptDiff

SpecTouch == Init /\ [][NextTouch]_vars

\* ------------------------------------------------------------- scanline
\* _getScanLine(false) whose modulo is taken of the elapsed scanlines alone
getScanLineModInside(S) ==
    S.drv.synced_scanline
      + (((S.drv.synced_em * ILI9488_T4_NB_SCANLINES) \div S.drv.period)
            % ILI9488_T4_NB_SCANLINES)

\* _getScanLine(false): the scanline extrapolated from the last one read;
\* the product is made in 64 bits, which 2^32 microseconds times the number
\* of scanlines do not exceed
getScanLine(S) ==
    (S.drv.synced_scanline + ((S.drv.synced_em * ILI9488_T4_NB_SCANLINES) \div S.drv.period))
        % ILI9488_T4_NB_SCANLINES

\* _getScanLine(true): the panel answers res to command 0x45; the elapsed
\* time restarts and the scanline 2 * res - 3, or 0, is saved
syncScanLine(S, res) ==
    LET sc == IF 2 * res - 3 < 0 THEN 0 ELSE 2 * res - 3
    IN [S EXCEPT !.drv.synced_em = 0, !.drv.synced_scanline = sc]

\* answers of the panel to command 0x45 that map to a scanline
ScanReads == {res \in 0..ILI9488_T4_NB_SCANLINES : 2 * res - 3 < ILI9488_T4_NB_SCANLINES}

\* calibrated refresh periods in microseconds
ScanPeriods == {3, 4, 7, 10}

\* the driver reads the scanline from the panel
ScanSync ==
    /\ \E res \in ScanReads : Commit(syncScanLine(Sys, res), IdleMain)

\* _synced_em counts the microseconds
Elapse ==
    /\ drv.synced_em < MaxElapsed
    /\ Commit([Sys EXCEPT !.drv.synced_em = @ + 1], IdleMain)

\* the driver extrapolates the scanline
ScanQuery ==
    /\ main.op = "none"
    /\ main' = [main EXCEPT !.op = "_getScanLine", !.sl = getScanLine(Sys)]
    /\ UNCHANGED <<drv, mem, diffs, panel, timer, dma, em, gh, clock>>

InitScan ==
    \E c \in Configs, p \in ScanPeriods :
        Wired([Constructed(c, 1) EXCEPT !.period = p, !.period_mode0 = p], p)

NextScan ==
    \/ ScanSync
    \/ Elapse
    \/ ScanQuery

SpecScan == InitScan /\ [][NextScan]_vars

TypeOK ==
    /\ drv.dma_state \in {ILI9488_T4_DMA_IDLE, ILI9488_T4_DMA_ON}
    /\ gh.nsub \in 0..MaxSubmit

\* ---------------------------------------------------------------- claims
Range(q) == {q[k] : k \in 1..Len(q)}

DoubleSingle == drv.fb1 # NULL /\ drv.fb2 = NULL /\ drv.diff1 # NULL /\ drv.diff2 = NULL
DoubleTwo == drv.fb1 # NULL /\ drv.fb2 = NULL /\ drv.diff2 # NULL
Triple == drv.fb2 # NULL

\* C1: every span that reaches the panel between a transfer's start and its
\* return to Idle is read from the framebuffer content and the diff the
\* transfer was launched with; _updateAsync never runs during a transfer
C1_OneTransfer ==
    /\ gh.fault # "hang"
    /\ \A p \in gh.landed : p = <<gh.xferTag, gh.xferGen>>
    /\ asyncUpdateActive(Sys) =>
          /\ gh.tag[drv.fb] = gh.xferTag
          /\ diffs[drv.diff].gen = gh.xferGen

\* a span of the transfer has landed, the next is on the bus, and a later
\* submission is in progress in the main thread
C1_Witness == gh.landed # {} /\ dma.on /\ main.pc # "idle" /\ gh.nsub > gh.xferTag

\* C2: no step taken while a transfer is active changes a pixel of the
\* framebuffer the transfer reads
C2_SourceStable ==
    [][asyncUpdateActive(Sys) => mem'[drv.fb] = mem[drv.fb]]_vars

\* the main thread has stored a new frame in the other framebuffer while the
\* transfer of _fb1 is active
C2_Witness ==
    /\ asyncUpdateActive(Sys) /\ main.pc = "upd_t_commit"
    /\ drv.fb = drv.fb1 /\ gh.tag[drv.fb2] = gh.nsub /\ mem[drv.fb2] # mem[drv.fb1]

\* C3: a completion handler runs _buffer2fullCB at most once
C3_CallbackOnce == gh.cbRuns <= 1

\* C4 as stated: a frame that is staged when a later update() is called
\* during the transfer is never transferred
C4_Original == \A t \in gh.calledOver : t \notin Range(gh.launched)

\* C4 amended: with vsync spacing -1 a frame still staged at the second
\* check of a later update() is replaced and never transferred; with any
\* other spacing update() waits and no staged frame is replaced
C4_NewestWins ==
    /\ \A t \in gh.overwritten : t \notin Range(gh.launched)
    /\ drv.vsync_spacing # -1 => gh.overwritten = {}

\* three submissions during one transfer: the second was replaced, the
\* first and the third were launched
C4_Witness == gh.overwritten = {2} /\ gh.launched = <<1, 3>> /\ gh.fault = "none"

\* C5: a completion handler that finds a staged frame with its callback
\* registered leaves the staged buffer as _fb1 and as the source of the one
\* transfer it has launched, with _fb2full cleared
C5_Promotion ==
    [][(drv.pcb # NULL /\ drv'.pcb = NULL /\ main' = main) =>
          /\ ~drv'.fb2full
          /\ drv'.fb1 = drv.fb2
          /\ drv'.fb = drv.fb2
          /\ gh'.launched = Append(gh.launched, gh.tag[drv.fb2])]_vars

C7_SpareDiff ==
    /\ [][(DoubleTwo /\ asyncUpdateActive(Sys)) =>
             /\ mem' = mem
             /\ drv'.diff1 = drv.diff1 /\ drv'.diff2 = drv.diff2
             /\ diffs'[drv.diff].spans = diffs[drv.diff].spans
             /\ gh'.launched = gh.launched]_vars
    /\ []((DoubleTwo /\ main.op = "update" /\ main.pc = "launch") =>
             /\ gh.tag[drv.fb1] = gh.nsub
             /\ mem[drv.fb1] = main.f
             /\ diffs[main.ld].gen = gh.nsub
             /\ main.ld \in {drv.diff1, drv.dummydiff1})

\* the new diff is in the spare slot, _fb1 still holds the frame in transfer
C7_Witness ==
    /\ DoubleTwo /\ asyncUpdateActive(Sys) /\ main.pc = "upd_d_two_w"
    /\ diffs[drv.diff2].gen = gh.nsub /\ diffs[drv.diff2].spans # <<>>
    /\ gh.tag[drv.fb1] = gh.xferTag

\* C8: during a transfer no step rewrites the diff object the transfer
\* reads, and the main thread does not swap the diff slots
C8_DiffInUse ==
    [][asyncUpdateActive(Sys) =>
          /\ diffs'[drv.diff].spans = diffs[drv.diff].spans
          /\ diffs'[drv.diff].gen = diffs[drv.diff].gen
          /\ main' # main =>
                /\ drv'.diff1 = drv.diff1 /\ drv'.diff2 = drv.diff2
                /\ drv'.dummydiff1 = drv.dummydiff1
                /\ drv'.dummydiff2 = drv.dummydiff2]_vars

\* a diff for the staged frame was computed in the second slot while the
\* transfer reads the first
C8_Witness ==
    /\ Triple /\ asyncUpdateActive(Sys) /\ main.pc = "upd_t_commit" /\ main.real
    /\ drv.diff = drv.diff1 /\ diffs[drv.diff2].gen = gh.nsub /\ dma.on

\* C9: without framebuffer the scheduler stays Idle with no timer, DMA or
\* callback, and a returned call has written every pixel of its frame or
\* region to the panel
C9_NoBuffering ==
    bufferingMode(Sys) = NO_BUFFERING =>
       /\ ~asyncUpdateActive(Sys) /\ timer = NoTimer /\ ~dma.on /\ drv.pcb = NULL
       /\ (main.pc = "idle" /\ main.op = "update") =>
             gh.written = AllPixels /\ panel.px = main.f
       /\ (main.pc = "idle" /\ main.op = "updateRegion") =>
             /\ RegionPixels(main.reg) \subseteq gh.written
             /\ \A i \in RegionPixels(main.reg) : panel.px[i] = main.f[i]

\* C10 as stated: after updateRegion() has returned _mirrorfb is null
C10_Original == (main.pc = "idle" /\ main.op = "updateRegion") => drv.mirrorfb = NULL

\* C10 amended: after updateRegion() has returned _mirrorfb is null without
\* framebuffer or with redrawNow false, and is _fb1 with redrawNow true
C10_MirrorAfterRegion ==
    (main.pc = "idle" /\ main.op = "updateRegion") =>
       IF bufferingMode(Sys) = NO_BUFFERING \/ ~main.redraw
       THEN drv.mirrorfb = NULL
       ELSE drv.mirrorfb = drv.fb1

\* a region update without redraw has dropped a valid mirror
C10_Witness ==
    /\ main.pc = "idle" /\ main.op = "updateRegion" /\ ~main.redraw
    /\ drv.mirrorfb = NULL /\ drv.ongoingDiff # NULL

\* C11: when update() returns after launching the transfer of its frame,
\* _mirrorfb is the transfer's source buffer _fb1; a completion handler
\* that finds a staged frame leaves _mirrorfb equal to the staged buffer
C11_MirrorAfterPush ==
    /\ []((main.pc = "idle" /\ main.op = "update" /\ drv.fb1 # NULL
           /\ gh.launched # <<>> /\ gh.launched[Len(gh.launched)] = gh.nsub)
          => (drv.mirrorfb = drv.fb1 /\ drv.fb = drv.fb1))
    /\ [][(drv.pcb # NULL /\ drv'.pcb = NULL /\ main' = main)
          => drv'.mirrorfb = drv.fb2]_vars

\* C12: a frame for which update(), when it chooses its diff, finds
\* _mirrorfb null or force_full_redraw set is handed to _updateAsync only
\* with a dummy diff that covers every pixel of the panel
C12_DummyWhenUnknown ==
    \A k \in 1..Len(gh.launched) :
        gh.launched[k] \in gh.fullChoice => gh.launchedKind[k] = "dummy"

\* C15: in double buffering with vsync spacing -1, a call of update()
\* during a transfer returns in the same step and changes no framebuffer,
\* no diff buffer, not _mirrorfb and nothing of the transfer
C15_DropWhenBusy ==
    [][(main.pc = "idle" /\ main'.op = "update" /\ gh'.nsub = gh.nsub + 1
        /\ bufferingMode(Sys) = DOUBLE_BUFFERING
        /\ drv.vsync_spacing = -1 /\ asyncUpdateActive(Sys))
       => /\ main'.pc = "idle"
          /\ mem' = mem /\ diffs' = diffs
          /\ drv' = [drv EXCEPT !.ongoingDiff = NULL]
          /\ timer' = timer /\ dma' = dma /\ panel' = panel /\ em' = em
          /\ gh'.launched = gh.launched]_vars

\* update() has returned during the transfer of an earlier submission, a
\* span of which is on the bus
C15_Witness ==
    /\ bufferingMode(Sys) = DOUBLE_BUFFERING /\ drv.vsync_spacing = -1
    /\ main.pc = "idle" /\ main.op = "update" /\ gh.nsub \in gh.updTags
    /\ asyncUpdateActive(Sys) /\ dma.on /\ gh.xferTag < gh.nsub
    /\ gh.tag[drv.fb1] = gh.xferTag

Increasing(q) == \A j, k \in 1..Len(q) : j < k => q[j] < q[k]

\* C16: with vsync spacing 0 and an owned framebuffer the frames are
\* launched in the order of their submission, and once the main thread and
\* the scheduler are idle every frame given to update() has been launched
C16_NoDropInOrder ==
    (drv.vsync_spacing = 0 /\ drv.fb1 # NULL) =>
       /\ Increasing(gh.launched)
       /\ (main.pc = "idle" /\ ~asyncUpdateActive(Sys))
             => gh.updTags \subseteq Range(gh.launched)

\* C13: setRotation to a different rotation and setFramebuffers do their
\* work only when the scheduler is Idle, and return with no transfer
\* active, no timer armed, _mirrorfb null and _fb2full false
C13_Reconfiguration ==
    [][(main.pc \in {"rot_wait", "fbs_wait"} /\ main'.pc = "idle")
       => /\ ~asyncUpdateActive(Sys)
          /\ drv'.dma_state = ILI9488_T4_DMA_IDLE /\ timer' = NoTimer /\ ~dma'.on
          /\ drv'.mirrorfb = NULL
          /\ ~drv'.fb2full]_vars

\* C19: the stored rotation is in 0..3 and the stored refresh mode in
\* 0..31; setRefreshMode with a mode outside 0..31 returns at once and
\* changes nothing in the driver or the panel; setRotation with an argument
\* above 3 takes the same branch, and leaves the same driver state, as
\* setRotation(3)
C19_ClampedConfiguration ==
    /\ [](drv.rotation \in 0..3 /\ drv.refreshmode \in 0..31)
    /\ [][(main.pc = "idle" /\ main'.op = "setRefreshMode" /\ gh'.nreconf = gh.nreconf + 1
           /\ main'.arg \notin 0..31)
          => /\ main'.pc = "idle"
             /\ drv' = drv /\ panel' = panel /\ mem' = mem /\ diffs' = diffs
             /\ timer' = timer /\ dma' = dma]_vars
    /\ [][(main'.op = "setRotation" /\ gh'.nreconf = gh.nreconf + 1 /\ main'.arg > 3)
          => main'.pc = setRotationEntry(Sys, 3)]_vars
    /\ [][(main.pc = "rot_wait" /\ main'.pc = "idle" /\ main.arg > 3)
          => drv' = setRotationStep(Sys, [main EXCEPT !.arg = 3]).s.drv]_vars

\* setRotation(255) has returned with rotation 3 after a setRefreshMode
\* with an invalid mode was ignored
C19_Witness ==
    /\ main.pc = "idle" /\ main.op = "setRotation" /\ main.arg = 255
    /\ drv.rotation = 3 /\ drv.width = ILI9488_T4_TFTHEIGHT
    /\ gh.nreconf = 2 /\ drv.refreshmode = 0 /\ panel.frmctr = <<>>

\* C18: begin() makes at most ILI9488_T4_RETRY_INIT passes of its retry
\* loop, halving the read clock after each failed pass, and has returned
\* false once the retries are used up
C18_BoundedRetries ==
    main.op = "begin" =>
        /\ main.tries <= ILI9488_T4_RETRY_INIT
        /\ (main.pc = "begin_try" => main.r > 0)
        /\ (main.pc = "idle" /\ main.ret = "true" => statusOk(main.res))

\* C20: for every refresh mode m in 0..31, _modeForRefreshRate applied to
\* _refreshRateForMode(m) answers m
C20_RoundTrip ==
    main.op = "_modeForRefreshRate" => main.mode = main.arg

\* the round trip was made for a mode inside the dichotomy, on the slower
\* side of the divider
C20_Witness ==
    /\ main.op = "_modeForRefreshRate" /\ main.arg = 17 /\ main.mode = 17
    /\ drv.period_mode0 = 9999

\* C14: when the armed timer and the DMA completion interrupt eventually
\* fire, every transfer in progress eventually reaches Idle with its
\* handler returned, and every call in progress eventually returns
\* (as what every finite run must then satisfy: no handler is caught in an
\* endless nest of completion callbacks, and while a transfer is active or
\* a call is in progress a handler is due or the call can take a step)
C14_Termination ==
    /\ gh.fault = "none"
    /\ (asyncUpdateActive(Sys) \/ main.pc # "idle") => (InterruptReady \/ MainReady)

\* C17: with vsync spacing N > 0 the bus work of a transfer with a diff
\* that is not empty begins no earlier than (N - 1) refresh periods after
\* the _timeframestart recorded for the previous frame; with vsync spacing
\* <= 0 it begins as soon as the two one-microsecond timers have fired
C17_Pacing ==
    clock.start >= 0 =>
        IF drv.vsync_spacing > 0
        THEN clock.start >= clock.prev + (drv.vsync_spacing - 1) * drv.period
        ELSE clock.start <= clock.launch + 2

\* with spacing 2, a transfer launched early has begun its bus work exactly
\* one period after the display start of the frame before it
C17_Witness ==
    /\ drv.vsync_spacing = 2 /\ clock.prev > 0 /\ timer.cb = NULL /\ asyncUpdateActive(Sys)
    /\ clock.launch < clock.prev + drv.period
    /\ clock.start = clock.prev + drv.period

\* update() returns to its caller without having dropped the frame
UpdateReturns == main.op = "update" /\ main.pc # "idle" /\ main'.pc = "idle"

\* C21: when update(fb) returns in double or triple buffering after having
\* launched or staged the frame, the buffer holding it (_fb2 when staged
\* behind a transfer in progress, _fb1 when launched) equals the submitted
\* frame at every pixel, for every gap and every mask
C21_FrameStored ==
    [][(UpdateReturns /\ bufferingMode(Sys) # NO_BUFFERING) =>
          mem'[IF main.pc = "upd_t_commit" THEN drv'.fb2 ELSE drv'.fb1] = main.f]_vars

\* a frame whose diff against the reference is empty under the mask has
\* been launched after a full redraw, and _fb1 holds it
C21_Witness ==
    /\ main.pc = "idle" /\ main.op = "update" /\ main.f = F1
    /\ drv.compare_mask = 2 /\ drv.mirrorfb = drv.fb1 /\ mem[drv.fb1] = F1
    /\ gh.nsub = 2 /\ gh.launchedKind = <<"dummy", "real">>
    /\ Len(diffs[drv.diff1].spans) = 0

\* _updateAsync is called with a diff that has no span: by update() at its
\* launch, or by the completion callback for the frame staged in _fb2
EmptyLaunchMain ==
    main.op = "update" /\ main.pc = "launch" /\ main'.pc = "idle" /\ diffs[main.ld].spans = <<>>

EmptyLaunchCallback ==
    /\ main' = main /\ asyncUpdateActive(Sys) /\ gh'.cbRuns > 0
    /\ drv.mirrorfb # NULL /\ diffs[drv.diff2].spans = <<>>

\* C22: a frame equal to the reference under the mask has an empty diff,
\* and _updateAsync called with it hands nothing to the bus, arms no timer,
\* leaves the scheduler Idle and counts the frame
C22_EmptyDiff ==
    [][/\ \A d \in {drv.diff1, drv.diff2} \ {NULL} :
            (/\ main.pc \in ChoicePcs /\ main'.pc # main.pc /\ diffs'[d] # diffs[d]
             /\ Changed(mem[drv.fb1], main.f, FullRegion, drv.compare_mask) = {})
                => diffs'[d].spans = <<>>
       /\ (EmptyLaunchMain \/ EmptyLaunchCallback)
           => /\ drv'.dma_state = ILI9488_T4_DMA_IDLE
              /\ timer'.cb = NULL
              /\ ~dma'.on
              /\ gh'.fault = "none"
              /\ drv'.stats_nb_frame > drv.stats_nb_frame]_vars

\* the scheduler's state: Idle, Starting (a start timer is armed),
\* Transferring (a span is on the bus), Waiting (the timer for
\* _subFrameInterruptDiff2 is armed)
SchedOf(d, t, b) ==
    IF d.dma_state = ILI9488_T4_DMA_IDLE THEN "Idle"
    ELSE IF b.on THEN "Transferring"
    ELSE IF t.cb = "subFrameInterruptDiff2" THEN "Waiting"
    ELSE "Starting"

SchedSteps ==
    {<<"Idle", "Starting">>, <<"Starting", "Transferring">>, <<"Transferring", "Waiting">>,
     <<"Waiting", "Transferring">>, <<"Transferring", "Idle">>}

\* C23: the scheduler changes state only along Idle -> Starting ->
\* Transferring <-> Waiting, Transferring -> Idle (a completion callback
\* that launches the staged frame goes on from Idle within the same step),
\* and a transfer does not go from Starting to Idle, no span transmitted
C23_Scheduler ==
    [][LET a == SchedOf(drv, timer, dma)
           b == SchedOf(drv', timer', dma')
       IN /\ gh'.fault = "none" /\ a # b
                => \/ <<a, b>> \in SchedSteps
                   \/ gh'.cbRuns > 0 /\ <<a, "Idle">> \in SchedSteps /\ <<"Idle", b>> \in SchedSteps
          /\ a = "Starting" => drv'.stats_nb_frame = drv.stats_nb_frame]_vars

\* an interrupt handler has run
IsrStep == main' = main /\ (em' # em \/ dma' # dma \/ timer' # timer)

\* row of the next span of the diff in transfer (-1 when there is none)
NextRow ==
    LET d == diffs[drv.diff]
    IN IF d.rd <= Len(d.spans) THEN d.spans[d.rd].y ELSE -1

ReadContract(d, sl) ==
    d.rd <= Len(d.spans) =>
        LET s == d.spans[d.rd]
            p == readDiff(d, sl)
        IN IF sl < s.y THEN p.r > 0 /\ p.d = d
           ELSE /\ p.r = 0 /\ p.x = s.x /\ p.y = s.y /\ p.len = s.len
                /\ p.d = [d EXCEPT !.rd = d.rd + 1]

\* C25: readDiff, at the scanline each interrupt passes it, returns MustWait
\* without advancing the cursor when the scanline is less than the next
\* span's row and that span when it is not;
\* the scheduler enters Waiting with the cursor on the span it waits for,
\* and when the timer expires it hands exactly that span to the bus (or
\* waits again for it): none is skipped, none repeated
C25_WaitKeepsSpan ==
    [][/\ (IsrStep /\ (dma.on \/ timer.cb = "subFrameInterruptDiff2"))
             => ReadContract(diffs[drv.diff],
                             IF drv.vsync_spacing > 0 THEN drv.slinitpos + em'
                             ELSE 2 * ILI9488_T4_TFTHEIGHT)
       /\ (timer'.cb = "subFrameInterruptDiff2" /\ IsrStep)
             => /\ diffs'[drv.diff].rd = diffs[drv.diff].rd
                /\ diffs'[drv.diff].rd <= Len(diffs'[drv.diff].spans)
       /\ (timer.cb = "subFrameInterruptDiff2" /\ IsrStep)
             => LET d == diffs[drv.diff]
                    s == d.spans[d.rd]
                IN \/ /\ dma'.on /\ dma'.x = s.x /\ dma'.y = s.y /\ dma'.len = s.len
                       /\ diffs'[drv.diff] = [d EXCEPT !.rd = d.rd + 1]
                   \/ timer'.cb = "subFrameInterruptDiff2" /\ ~dma'.on /\ diffs' = diffs]_vars

\* the span of row 3 is on the bus after a wait: the transfer started at
\* scanline 2, and three scanlines have elapsed, which the two spans
\* before it cannot account for
C25_Witness ==
    /\ drv.vsync_spacing > 0 /\ dma.on /\ dma.y = 3 /\ drv.slinitpos = 2 /\ em = 3
    /\ diffs[drv.diff].rd = 4

\* C26: with vsync spacing <= 0 the timer for _subFrameInterruptDiff2 is
\* never armed, the completion of a span hands the next span of the diff to
\* the bus in the same interrupt, and neither _margin, the margins recorded
\* nor the teared-frame counter change
C26_Unpaced ==
    [][drv.vsync_spacing <= 0 =>
          /\ timer'.cb # "subFrameInterruptDiff2"
          /\ (dma.on /\ IsrStep /\ NextRow >= 0)
                => LET d == diffs[drv.diff]
                       s == d.spans[d.rd]
                   IN /\ dma' = [on |-> TRUE, x |-> s.x, y |-> s.y, len |-> s.len]
                      /\ diffs'[drv.diff].rd = d.rd + 1
          /\ drv'.margin = drv.margin
          /\ drv'.statsvar_margin = drv.statsvar_margin
          /\ drv'.nbteared = drv.nbteared]_vars

\* without pacing the third span of a diff is on the bus, the beam far
\* above its row, and a frame has been completed before
C26_Witness ==
    /\ drv.vsync_spacing <= 0 /\ dma.on /\ dma.y = 3 /\ diffs[drv.diff].rd = 4
    /\ drv.stats_nb_frame > 0 /\ drv.statsvar_margin = 0

\* a span is handed to the DMA engine; a transfer is launched
SpanHanded == dma'.on /\ dma' # dma
Launches == timer'.cb = "subFrameTimerStartcb" /\ timer.cb # "subFrameTimerStartcb"

\* C27: the launch of a transfer sends the full address window at the
\* first span's position, once; a span handed to the bus is preceded by
\* CASET exactly when its column differs from the last column sent and by
\* PASET exactly when its row differs from the last row sent, and no
\* address command is sent otherwise; the window then starts at the span's
\* (column, row) and the span's pixels, and no other, land there. The
\* synchronous push of the dummy diff sends the window once and one PASET
\* for each further row
C27_AddressWindow ==
    [][/\ Launches
             => /\ panel'.ncaset = 1 /\ panel'.npaset = 1
                /\ panel'.cx = diffs'[drv'.diff].spans[1].x
                /\ panel'.cy = diffs'[drv'.diff].spans[1].y
       /\ SpanHanded
             => /\ panel'.cx = dma'.x /\ panel'.cy = dma'.y
                /\ panel'.ncaset = panel.ncaset + (IF dma'.x # drv.prev_caset_x THEN 1 ELSE 0)
                /\ panel'.npaset = panel.npaset + (IF dma'.y # drv.prev_paset_y THEN 1 ELSE 0)
       /\ (IsrStep /\ ~SpanHanded /\ ~Launches)
             => /\ panel'.cx = panel.cx /\ panel'.cy = panel.cy
                /\ panel'.ncaset = panel.ncaset /\ panel'.npaset = panel.npaset
       /\ (dma.on /\ IsrStep)
             => \A i \in AllPixels :
                   panel'.px[i] = IF i \in {Idx(dma.x + k, dma.y) : k \in 0..(dma.len - 1)}
                                  THEN mem[drv.fb][i] ELSE panel.px[i]
       /\ (main.op = "update" /\ main.pc = "idle" /\ bufferingMode(Sys) = NO_BUFFERING)
             => /\ panel.ncaset = 1 /\ panel.npaset = 1 + Cardinality({Idx(0, y) : y \in 1..(ILI9488_T4_TFTHEIGHT - 1)} \cap gh.written)
                /\ \A i \in gh.written : panel.px[i] = main.f[i]]_vars

\* the second span of a row is on the bus: CASET was sent for it, PASET
\* was not, and the first span has landed at its place
C27_Witness ==
    /\ dma.on /\ dma.x = 2 /\ dma.y = 1 /\ panel.cx = 2 /\ panel.cy = 1
    /\ panel.ncaset = 2 /\ panel.npaset = 1
    /\ panel.px[Idx(0, 1)] = mem[drv.fb][Idx(0, 1)] /\ panel.px[Idx(1, 1)] = 2

\* C28: with vsync pacing, the margin of the frame in transfer becomes
\* negative exactly at a scheduler step that finds the beam's estimated row
\* (in its next sweep) beyond the last row written; the step that
\* completes the transfer adds one to the teared-frame counter exactly when
\* the margin is negative, and no other step changes the counter
C28_Teared ==
    [][IF drv.vsync_spacing > 0 /\ IsrStep /\ (dma.on \/ timer.cb = "subFrameInterruptDiff2")
       THEN LET passed == drv.slinitpos + em' - ILI9488_T4_TFTHEIGHT > drv.last_y
                neg == drv.margin < 0 \/ passed
            IN IF NextRow < 0
               THEN drv'.nbteared = drv.nbteared + (IF neg THEN 1 ELSE 0)
               ELSE drv'.nbteared = drv.nbteared /\ (drv'.margin < 0 <=> neg)
       ELSE /\ drv'.nbteared = drv.nbteared
            /\ drv'.margin \in {drv.margin, ILI9488_T4_NB_SCANLINES}]_vars

\* one frame was teared, and a later one was not
C28_Witness ==
    /\ drv.vsync_spacing > 0 /\ drv.nbteared = 1 /\ drv.margin >= 0
    /\ gh.landed # {} /\ ~asyncUpdateActive(Sys) /\ gh.fault = "none"
    /\ drv.statsvar_margin > 1

\* a positive float between 2^-21 * 2^23 and 2^8 as a number of 2^-21
Fixed(x) == x.m * 2^(x.e + 21)

\* |x - y| as a number of 2^-21
AbsDiff(x, y) == IF Fixed(x) >= Fixed(y) THEN Fixed(x) - Fixed(y) ELSE Fixed(y) - Fixed(x)

\* C29: _modeForRefreshRate(hz) is a mode in 0..31 whose rate is at least
\* as near to hz as the rate of every mode; it is 0 when hz is at or above
\* the rate of mode 0, 31 when hz is at or below the rate of mode 31, and
\* otherwise one of the two modes whose rates bracket hz
C29_NearestMode ==
    main.op = "_modeForRefreshRate" =>
        LET p == drv.period_mode0
            hz == main.hz
            k == main.mode
            rate(j) == refreshRateForMode(p, j)
        IN /\ k \in 0..31
           /\ \A j \in 0..31 : AbsDiff(rate(k), hz) <= AbsDiff(rate(j), hz)
           /\ IF Fixed(hz) >= Fixed(rate(0)) THEN k = 0
              ELSE IF Fixed(hz) <= Fixed(rate(31)) THEN k = 31
              ELSE \E a \in 0..30 :
                      /\ Fixed(rate(a)) > Fixed(hz) /\ Fixed(hz) >= Fixed(rate(a + 1))
                      /\ k \in {a, a + 1}

\* 45 Hz on a 60 Hz panel lies between mode 5 (45.7 Hz) and mode 6
\* (43.6 Hz), and mode 5 is returned
C29_Witness ==
    /\ main.op = "_modeForRefreshRate" /\ main.hz = fnorm(45, 0) /\ main.mode = 5
    /\ drv.period_mode0 = NominalPeriod

\* C30 as stated: _refreshRateForMode(m) is baseHz / ((16 + m) / 16),
\* halved for m >= 16, and the table is strictly decreasing
C30_Original ==
    main.op = "_refreshRateForMode" =>
        /\ main.hz = refreshRateForModeLiteral(drv.period_mode0, main.arg)
        /\ main.arg < 31 => flt(refreshRateForMode(drv.period_mode0, main.arg + 1), main.hz)

\* C30: _refreshRateForMode(m) is baseHz / ((16 + k) / 16) with k = m for
\* m < 16 and, for m >= 16, k = m - 16 and the result halved, baseHz being
\* the rate of mode 0; the table is strictly decreasing in m
C30_RateTable ==
    main.op = "_refreshRateForMode" =>
        LET p == drv.period_mode0
            base == refreshRateForMode(p, 0)
            r == fdiv(fscale(base, 4), 16 + (main.arg % 16))
        IN /\ base = fdivInt(1000000, p)
           /\ main.hz = IF main.arg >= 16 THEN fscale(r, -1) ELSE r
           /\ main.arg < 31 => flt(refreshRateForMode(p, main.arg + 1), main.hz)

\* mode 16 on a 60 Hz panel: half the rate of mode 0, and not a quarter
C30_Witness ==
    /\ main.op = "_refreshRateForMode" /\ main.arg = 16 /\ drv.period_mode0 = NominalPeriod
    /\ main.hz = fscale(refreshRateForMode(NominalPeriod, 0), -1)
    /\ main.hz # refreshRateForModeLiteral(NominalPeriod, 16)

\* C31: _getScanLine(false) with a period > 0 returns the scanline r of
\* 0..NB_SCANLINES-1 congruent modulo NB_SCANLINES to the synchronized
\* scanline plus q, the whole number of periodth parts of elapsed *
\* NB_SCANLINES, and leaves the driver as it is
C31_Extrapolated ==
    [][main'.op = "_getScanLine" =>
          LET n == ILI9488_T4_NB_SCANLINES
              e == drv.synced_em
              p == drv.period
              r == main'.sl
          IN /\ p > 0
             /\ r \in 0..(n - 1)
             /\ \E q \in 0..(e * n) :
                   /\ q * p <= e * n /\ e * n < (q + 1) * p
                   /\ \E k \in 0..(q + 1) : drv.synced_scanline + q = k * n + r
             /\ drv' = drv]_vars

\* the beam has gone round at least once since the scanline was read and
\* the extrapolation has wrapped below it
C31_Witness ==
    /\ main.op = "_getScanLine"
    /\ (drv.synced_em * ILI9488_T4_NB_SCANLINES) \div drv.period >= ILI9488_T4_NB_SCANLINES
    /\ drv.synced_scanline = 3 /\ main.sl = 1

\* C32: no touch read is made while the display holds the bus; the request
\* made during a transfer only sets the flag; the read is made once, by a
\* handler at the end of a transfer (the flag was set, the scheduler has not
\* yet been set Idle and no further transfer has been launched) or by the
\* caller with the scheduler Idle; and when _updateTouch returns after a
\* due call one read has been made and the flag is false
C32_TouchDeferred ==
    [][/\ ~gh'.sampleHeld
       /\ (main.pc = "tch_set" /\ main' # main)
             => drv'.touch_request_read /\ gh'.samples = gh.samples
       /\ (gh'.samples # gh.samples /\ gh'.ntouch = gh.ntouch)
             => /\ gh.samples = 0 /\ gh'.samples = 1
                /\ IF main' = main
                   THEN /\ drv.touch_request_read /\ ~drv'.touch_request_read
                        /\ gh'.sampleState = ILI9488_T4_DMA_ON
                        /\ gh'.sampleAt = Len(gh.launched)
                   ELSE /\ main.pc = "tch_read"
                        /\ drv.dma_state = ILI9488_T4_DMA_IDLE
                        /\ drv'.dma_state = ILI9488_T4_DMA_IDLE
       /\ (main.pc \in TouchPcs /\ main'.pc = "idle")
             => gh'.samples = 1 /\ ~drv'.touch_request_read
       /\ (main.pc = "idle" /\ main'.pc = "idle") => ~drv'.touch_request_read]_vars

\* _updateTouch has returned; the read was made by the handler at the end
\* of a transfer, and the staged frame was launched after it
C32_Witness ==
    /\ main.pc = "idle" /\ main.op = "_updateTouch" /\ gh.samples = 1
    /\ gh.sampleState = ILI9488_T4_DMA_ON
    /\ Len(gh.launched) > gh.sampleAt
    /\ ~drv.touch_request_read

\* a transfer with a diff that is not empty starts under vsync: the first
\* timer callback of the asynchronous path, or the synchronous push
PacedStart ==
    /\ drv.vsync_spacing > 0
    /\ \/ main' = main /\ timer.cb = "subFrameTimerStartcb" /\ timer' # timer
       \/ main.pc = "upd_nobuf" /\ main'.pc = "idle"

\* a reconfiguration call returns after its resync()
ResyncReturns == main.pc \in {"rot_wait", "fbs_wait", "rm_wait"} /\ main'.pc = "idle"

\* (original statement) the override set by an event stays set until the
\* next transfer start under vsync, which clears it
C33_Original ==
    [][(drv.late_start_ratio_override /\ ~drv'.late_start_ratio_override) => PacedStart]_vars

\* C33: the override is set only by the reconfiguration calls; a transfer
\* start under vsync that finds it set waits for the first scanline of the
\* diff whatever the late-start ratio allows, and every such start clears
\* it; the override is cleared only by such a start or by the launch under
\* vsync of a frame whose diff is empty
C33_OneShot ==
    [][/\ (~drv.late_start_ratio_override /\ drv'.late_start_ratio_override) => ResyncReturns
       /\ PacedStart => ~drv'.late_start_ratio_override
       /\ (PacedStart /\ main' = main /\ drv.late_start_ratio_override) => timer'.wait > 0
       /\ (drv.late_start_ratio_override /\ ~drv'.late_start_ratio_override)
             => \/ PacedStart
                \/ drv.vsync_spacing > 0 /\ (EmptyLaunchMain \/ EmptyLaunchCallback)]_vars

\* after a change of the refresh mode the second transfer of the run
\* starts at once, late, the override having been cleared
C33_Witness ==
    /\ drv.refreshmode = 15 /\ gh.nreconf = 1 /\ Len(gh.launched) = 2
    /\ timer.cb = "subFrameTimerStartcb2" /\ timer.wait = 0
    /\ ~drv.late_start_ratio_override

\* C34: a span on the bus and an armed timer never exist together, and
\* either exists only during a transfer: the scheduler step has one trigger
\* outstanding at most, so that it is entered by one handler at a time
C34_OneTrigger ==
    /\ ~(dma.on /\ timer.cb # NULL)
    /\ (dma.on \/ timer.cb # NULL) => asyncUpdateActive(Sys)

\* the scheduler waits for the beam on its timer after a span has left,
\* and no span is on the bus
C34_Witness ==
    /\ asyncUpdateActive(Sys) /\ timer.cb = "subFrameInterruptDiff2" /\ ~dma.on
    /\ diffs[drv.diff].rd > 1

\* the frame period of the panel as it is configured: that of mode 0 until
\* FRMCTR1 is written
PanelPeriod(p) == IF p.frmctr = <<>> THEN p.period0 ELSE FramePeriod(p)

\* (original statement) setRefreshMode and setRotation both sample the
\* refresh period before they return
C35_Original ==
    [][(main.pc \in {"rm_wait", "rot_wait"} /\ main'.pc = "idle")
          => gh'.nsample > gh.nsample]_vars

\* C35: setRefreshMode samples the refresh period after it has written the
\* mode to the panel and before it returns; setRotation sends nothing to
\* the panel and keeps the period; so at every moment, and whenever a
\* transfer is paced, _period is the frame period of the panel as it is
\* configured
C35_Resampled ==
    /\ [](drv.period = PanelPeriod(panel))
    /\ [][/\ (main.pc = "rm_wait" /\ main'.pc = "idle")
              => /\ gh'.nsample = gh.nsample + 1
                 /\ ~asyncUpdateActive(Sys) /\ drv'.dma_state = ILI9488_T4_DMA_IDLE
          /\ (main.pc = "rot_wait" /\ main'.pc = "idle")
              => /\ panel' = panel /\ drv'.period = drv.period
                 /\ gh'.nsample = gh.nsample]_vars

\* a transfer is being paced in refresh mode 15 with the period sampled in
\* that mode
C35_Witness ==
    /\ drv.refreshmode = 15 /\ gh.nsample = 1 /\ drv.period # NominalPeriod
    /\ drv.period = FramePeriod(panel)
    /\ asyncUpdateActive(Sys) /\ timer.cb = "subFrameTimerStartcb"

\* C36: interrupts are enabled whenever update() returns, and whenever it
\* launches a transfer
C36_InterruptsOn ==
    [][/\ UpdateReturns => main'.irq
       /\ (main.op = "update" /\ main.pc = "launch" /\ main' # main) => main.irq]_vars

\* C37: between calls, and where update() and updateRegion() wait on
\* _fb2full, the flag is true only if a transfer is active and
\* _buffer2fullCB is registered as its completion callback
C37_StagedIsBacked ==
    (drv.fb2full /\ main.pc \in {"idle", "upd_t_wait", "reg_dispatch"})
        => (asyncUpdateActive(Sys) /\ drv.pcb = "buffer2fullCB")

\* C38: between calls, when the scheduler is Idle and _mirrorfb is a
\* buffer, and pixels are compared strictly, the panel shows that buffer at
\* every pixel
C38_MirrorIsPanel ==
    (main.pc = "idle" /\ ~asyncUpdateActive(Sys) /\ drv.mirrorfb # NULL
     /\ drv.compare_mask = 0)
        => panel.px = mem[drv.mirrorfb]

\* the read cursor of the diff of the transfer
Cursor(S) == S.diffs[S.drv.diff].rd

\* C39: a transfer hands the spans of its diff to the bus each once and in
\* order, the first included: whenever the read cursor of an active
\* transfer's diff has passed a span, by the probe at launch or by a later
\* read, that span is the one handed to the bus in that step; and a
\* synchronous push of a full redraw writes every pixel
C39_SpansInOrder ==
    [][/\ (/\ asyncUpdateActive(Sys') /\ Cursor(Sys') > 1
           /\ (~asyncUpdateActive(Sys) \/ drv'.diff # drv.diff
                  \/ gh'.launched # gh.launched \/ Cursor(Sys') # Cursor(Sys)))
          => LET s == diffs'[drv'.diff].spans[Cursor(Sys') - 1]
             IN dma'.on /\ dma'.x = s.x /\ dma'.y = s.y /\ dma'.len = s.len
       /\ (UpdateReturns /\ bufferingMode(Sys) = NO_BUFFERING)
          => gh'.written = AllPixels]_vars

\* the frame of the last update() is in _fb2, not yet launched
StagedLast ==
    /\ drv.fb2 # NULL /\ gh.tag[drv.fb2] = gh.nsub
    /\ (gh.launched = <<>> \/ gh.launched[Len(gh.launched)] # gh.nsub)

\* C40: in triple buffering, when the timer and DMA interrupts eventually
\* fire, the most recently submitted frame is eventually transferred once
\* submissions stop (as what every finite run must then satisfy: no
\* handler is caught in an endless nest of callbacks; while a transfer is
\* active or a call is in progress a handler is due or the call can take a
\* step; when update() has returned and the scheduler is Idle the frame has
\* been launched), and a staged frame always has a transfer in progress
\* with _buffer2fullCB registered and interrupts enabled
C40_LastFrameTransferred ==
    Triple =>
       /\ gh.fault = "none"
       /\ (asyncUpdateActive(Sys) \/ main.pc # "idle") => (InterruptReady \/ MainReady)
       /\ (main.pc = "idle" /\ main.op = "update" /\ ~asyncUpdateActive(Sys))
             => (gh.launched # <<>> /\ gh.launched[Len(gh.launched)] = gh.nsub)
       /\ (main.pc = "idle" /\ main.op = "update" /\ StagedLast)
             => (asyncUpdateActive(Sys) /\ drv.pcb = "buffer2fullCB" /\ main.irq)

====
